---- MODULE Spec2Model ----
(***************************************************************************)
(* The receipt lottery of zonecrest/lottery: the API module's local        *)
(* redemption ledger (submitScan, _demoScan, _storeScan, the audit log),   *)
(* its commitment hash, and the receipt code parser.                       *)
(*                                                                         *)
(* A JavaScript string is a sequence of one-character strings, so that     *)
(* regular expressions, substring and charCodeAt act on its characters.    *)
(* The cedi sign of the prize labels is written "cedi".                    *)
(***************************************************************************)
EXTENDS Integers, Sequences, FiniteSets, TLC

VARIABLES
    demoMode,      \* CONFIG.DEMO_MODE || !CONFIG.isN8nConfigured()
    now,           \* the wall clock (Date.now()), in minutes after midnight of the first day
    localStorage,  \* the browser's localStorage: the four lists the API keeps
                   \* and the phone the App keeps
    app,           \* the App object's fields userPhone, isRegistered, totalScans,
                   \* totalWins, lastScannedCode and lastScanTime
    inflight,      \* submitScan calls awaiting the backend's answer
    last,          \* what the call that completed last was given and returned
    execs,         \* log: every redemption the modelled calls recorded
    refused,       \* log: per participant, the oldest entry counted at a refusal
    calls,         \* number of API calls entered
    ticks,         \* number of clock steps taken
    scanner,       \* the Scanner object's fields html5QrCode, isScanning and
                   \* onScanCallback
    camera,        \* the Html5Qrcode objects created so far and the Scanner
                   \* calls awaiting one of them
    page           \* the scanner page: the result modal, the timers closeModal
                   \* set and the path the last handleScan took

vars == <<demoMode, now, localStorage, app, inflight, last, execs, refused, calls, ticks,
          scanner, camera, page>>

(***************************************************************************)
(* Bounds of the model.                                                    *)
(***************************************************************************)
MaxCalls == 2
MaxTicks == 1
MaxInflight == 2

(***************************************************************************)
(* Characters and strings.                                                 *)
(***************************************************************************)
Range(s) == {s[i] : i \in DOMAIN s}

DigitChars == <<"0","1","2","3","4","5","6","7","8","9">>
UpperChars == <<"A","B","C","D","E","F","G","H","I","J","K","L","M","N","O","P","Q","R","S","T","U","V","W","X","Y","Z">>
LowerChars == <<"a","b","c","d","e","f","g","h","i","j","k","l","m","n","o","p","q","r","s","t","u","v","w","x","y","z">>
HexChars == <<"0","1","2","3","4","5","6","7","8","9","a","b","c","d","e","f">>

IndexIn(s, c) == CHOOSE i \in DOMAIN s : s[i] = c

IsDigit(c) == c \in Range(DigitChars)
IsUpper(c) == c \in Range(UpperChars)
IsLower(c) == c \in Range(LowerChars)

\* The UTF-16 code unit of every character the model's strings use.
CharCodeTable ==
    [c \in Range(DigitChars) \cup Range(UpperChars) \cup Range(LowerChars)
           \cup {"-", ":", ".", "/", "?", "=", "&", " ", "*", "cedi"} |->
        IF IsDigit(c) THEN 47 + IndexIn(DigitChars, c)
        ELSE IF IsUpper(c) THEN 64 + IndexIn(UpperChars, c)
        ELSE IF IsLower(c) THEN 96 + IndexIn(LowerChars, c)
        ELSE CASE c = "-" -> 45 [] c = ":" -> 58 [] c = "." -> 46
               [] c = "/" -> 47 [] c = "?" -> 63 [] c = "=" -> 61
               [] c = "&" -> 38 [] c = " " -> 32 [] c = "*" -> 42
               [] c = "cedi" -> 8373]

charCodeAt(s, i) == CharCodeTable[s[i]]

\* A regular expression's /i flag: letters compare by their lower case.
ToLowerChar(c) == IF IsUpper(c) THEN LowerChars[IndexIn(UpperChars, c)] ELSE c

\* String.prototype.substring(from, to), 0-based, end exclusive, clamped.
Min(a, b) == IF a < b THEN a ELSE b
Max(a, b) == IF a > b THEN a ELSE b
substring(s, from, to) ==
    LET f == Min(Max(from, 0), Len(s))
        t == Min(Max(to, 0), Len(s))
    IN  SubSeq(s, Min(f, t) + 1, Max(f, t))

\* '0'.repeat(n)
repeat(c, n) == [i \in 1..n |-> c]

\* JavaScript's null, set apart from every string.
Null == <<"null">>

(***************************************************************************)
(* CONFIG                                                                  *)
(***************************************************************************)
WIN_PERCENTAGE == 10
MAX_SCANS_PER_HOUR == 10

CediFive == <<"G","H","cedi","5"," ","A","i","r","t","i","m","e">>
CediTen == <<"G","H","cedi","1","0"," ","A","i","r","t","i","m","e">>
CediFifty == <<"G","H","cedi","5","0"," ","A","i","r","t","i","m","e">>

\* CONFIG.PRIZES in insertion order (Object.entries): label and share of wins.
PRIZES == << [prize |-> CediFive, percentage |-> 70],
             [prize |-> CediTen, percentage |-> 25],
             [prize |-> CediFifty, percentage |-> 5] >>

PrizeKeys == {PRIZES[i].prize : i \in DOMAIN PRIZES}

\* CONFIG.QR_PATTERN: /^GRA-VAT-\d{4}-[A-Z0-9]{4}-[A-Z0-9]{4}-[A-Z0-9]{4}$/
GraVatPrefix == <<"G","R","A","-","V","A","T","-">>
IsAlnumUpper(c) == IsUpper(c) \/ IsDigit(c)
QR_PATTERN_test(s) ==
    /\ Len(s) = 27
    /\ SubSeq(s, 1, 8) = GraVatPrefix
    /\ \A i \in 9..12 : IsDigit(s[i])
    /\ s[13] = "-" /\ s[18] = "-" /\ s[23] = "-"
    /\ \A i \in (14..17) \cup (19..22) \cup (24..27) : IsAlnumUpper(s[i])

(***************************************************************************)
(* QRParser (the receipt code parser)                                      *)
(***************************************************************************)
\* /^https?:\/\/(evat\.gra\.gov\.gh|vsdc\.vat-gh\.com)\/verify\?/i matches a
\* string that starts, letter case ignored, with one of these four prefixes.
V2Prefixes ==
    { <<"h","t","t","p",":","/","/","e","v","a","t",".","g","r","a",".","g","o","v",".","g","h","/","v","e","r","i","f","y","?">>,
      <<"h","t","t","p","s",":","/","/","e","v","a","t",".","g","r","a",".","g","o","v",".","g","h","/","v","e","r","i","f","y","?">>,
      <<"h","t","t","p",":","/","/","v","s","d","c",".","v","a","t","-","g","h",".","c","o","m","/","v","e","r","i","f","y","?">>,
      <<"h","t","t","p","s",":","/","/","v","s","d","c",".","v","a","t","-","g","h",".","c","o","m","/","v","e","r","i","f","y","?">> }

StartsWithIgnoreCase(s, prefix) ==
    /\ Len(s) >= Len(prefix)
    /\ \A i \in DOMAIN prefix : ToLowerChar(s[i]) = prefix[i]

isV2Format(content) == \E prefix \in V2Prefixes : StartsWithIgnoreCase(content, prefix)

isV1Format(content) == QR_PATTERN_test(content)

\* URLSearchParams.get(name) on the query of a URL that the v2 pattern matched:
\* the text after the first '?', cut at '&', each piece split at its first
\* '='; the value of the first piece named `name`, or null.  A '+' is read
\* as a space.  (The strings of the model hold no '%', which would be decoded.)
RECURSIVE IndexOfChar(_, _, _)
IndexOfChar(s, c, from) ==
    IF from > Len(s) THEN 0
    ELSE IF s[from] = c THEN from
    ELSE IndexOfChar(s, c, from + 1)

PlusToSpace(s) == [i \in DOMAIN s |-> IF s[i] = "+" THEN " " ELSE s[i]]

RECURSIVE SearchParamsGet(_, _)
SearchParamsGet(query, name) ==
    IF query = <<>> THEN Null
    ELSE LET amp == IndexOfChar(query, "&", 1)
             piece == IF amp = 0 THEN query ELSE SubSeq(query, 1, amp - 1)
             rest == IF amp = 0 THEN <<>> ELSE SubSeq(query, amp + 1, Len(query))
             eq == IndexOfChar(piece, "=", 1)
             key == IF eq = 0 THEN piece ELSE SubSeq(piece, 1, eq - 1)
             val == IF eq = 0 THEN <<>> ELSE SubSeq(piece, eq + 1, Len(piece))
         IN  IF piece # <<>> /\ PlusToSpace(key) = name THEN PlusToSpace(val)
             ELSE SearchParamsGet(rest, name)

\* new URL(urlString), no base given: it throws for a string without a
\* scheme.  With a scheme the URL parser can fail in the host and port only;
\* a string that the v2 pattern matches has the scheme http or https, one of
\* the two hosts, no port and the path /verify, and whatever follows the '?'
\* is taken as the query, so for such a string it does not throw.
NewURLThrows(urlString) ==
    LET colon == IndexOfChar(urlString, ":", 1)
    IN  \/ colon <= 1
        \/ ~(IsUpper(urlString[1]) \/ IsLower(urlString[1]))
        \/ \E i \in 2..(colon - 1) :
              ~(\/ IsUpper(urlString[i]) \/ IsLower(urlString[i]) \/ IsDigit(urlString[i])
                \/ urlString[i] \in {"+", "-", "."})

Unknown == <<"U","n","k","n","o","w","n">>

formatTimestamp(ts) ==
    IF ts = Null \/ Len(ts) < 14 THEN Unknown
    ELSE substring(ts, 0, 4) \o <<"/">> \o substring(ts, 4, 6) \o <<"/">>
         \o substring(ts, 6, 8) \o <<" ">> \o substring(ts, 8, 10) \o <<":">>
         \o substring(ts, 10, 12) \o <<":">> \o substring(ts, 12, 14)

\* url.searchParams: the text between the first '?' and the first '#'
SearchOf(urlString) ==
    LET hash == IndexOfChar(urlString, "#", 1)
        noFragment == IF hash = 0 THEN urlString ELSE SubSeq(urlString, 1, hash - 1)
        q == IndexOfChar(noFragment, "?", 1)
    IN  IF q = 0 THEN <<>> ELSE SubSeq(noFragment, q + 1, Len(noFragment))

parseV2URL(urlString) ==
    IF NewURLThrows(urlString) THEN Null
    ELSE LET params == SearchOf(urlString)
         IN  [sdcId |-> SearchParamsGet(params, <<"s","d","c">>),
              rcptNum |-> SearchParamsGet(params, <<"r","c","p","t">>),
              internalData |-> SearchParamsGet(params, <<"d","a","t","a">>),
              ts |-> SearchParamsGet(params, <<"t","s">>),
              sig |-> SearchParamsGet(params, <<"s","i","g">>),
              timestampFormatted |-> formatTimestamp(SearchParamsGet(params, <<"t","s">>))]

\* QRParser.parse: the version, the verdict and the parsed data.
parse(qrContent) ==
    IF isV2Format(qrContent)
    THEN [version |-> "v2", valid |-> TRUE, data |-> parseV2URL(qrContent), raw |-> qrContent]
    ELSE IF isV1Format(qrContent)
    THEN [version |-> "v1", valid |-> TRUE, data |-> [code |-> qrContent], raw |-> qrContent]
    ELSE [version |-> "unknown", valid |-> FALSE, data |-> Null, raw |-> qrContent]

\* A variant of getUniqueId with one change: a v2 result gives the raw string.
getUniqueIdRaw(parsedData) ==
    IF parsedData.version = "v2" THEN parsedData.raw
    ELSE IF parsedData.version = "v1" THEN parsedData.data.code
    ELSE Null

\* QRParser.getUniqueId, for a result whose data is not null.  (Reading
\* rcptNum of null would throw; parse gives a v2 result null data only when
\* new URL throws.)
getUniqueId(parsedData) ==
    IF parsedData.version = "v2" THEN parsedData.data.rcptNum
    ELSE IF parsedData.version = "v1" THEN parsedData.data.code
    ELSE Null

(***************************************************************************)
(* Time: Date.now(), toISOString() and new Date(string)                    *)
(***************************************************************************)
\* The clock runs over January 2024, BaseMonth, in whole minutes from the
\* first day's midnight.
BaseMonth == <<"2","0","2","4","-","0","1","-">>
ONE_DAY == 24 * 60
SecondsTail == <<":","0","0",".","0","0","0","Z">>

TwoDigits(n) == <<DigitChars[(n \div 10) + 1], DigitChars[(n % 10) + 1]>>

\* new Date(ms).toISOString(): YYYY-MM-DDTHH:mm:ss.sssZ
toISOString(minutes) ==
    BaseMonth \o TwoDigits((minutes \div ONE_DAY) + 1) \o <<"T">>
    \o TwoDigits((minutes % ONE_DAY) \div 60) \o <<":">> \o TwoDigits(minutes % 60)
    \o SecondsTail

DigitValue(c) == IndexIn(DigitChars, c) - 1

\* new Date(isoString), as minutes after the first day's midnight.
parseDate(iso) ==
    (DigitValue(iso[9]) * 10 + DigitValue(iso[10]) - 1) * ONE_DAY
        + (DigitValue(iso[12]) * 10 + DigitValue(iso[13])) * 60
        + DigitValue(iso[15]) * 10 + DigitValue(iso[16])

\* 60 * 60 * 1000 milliseconds, in the clock's minutes.
ONE_HOUR == 60

(***************************************************************************)
(* API helper functions                                                    *)
(***************************************************************************)
\* 32-bit integers as two 16-bit halves <<high, low>> of the bit pattern
\* (two's complement), so that no intermediate value exceeds the range of
\* TLC's integers.
Half == 256 * 256
SignBit == 128 * 256

\* a - b, kept to 32 bits
Sub32(a, b) ==
    LET borrow == IF a[2] < b[2] THEN 1 ELSE 0
    IN  <<(a[1] - b[1] - borrow + 2 * Half) % Half, (a[2] - b[2] + Half) % Half>>

\* One round of the loop: hash = ((hash << 5) - hash) + char; hash = hash & hash.
\* The shift drops the bits that leave the 32, the low halves' borrow or carry
\* goes into the high half, and the closing & keeps 32 bits of the sum.
HashRound(hash, char) ==
    LET shiftedLow == (hash[2] * 32) % Half
        shiftedHigh == (hash[1] * 32 + (hash[2] \div 2048)) % Half
        low == shiftedLow - hash[2] + char
        high == shiftedHigh - hash[1] + (IF low < 0 THEN -1 ELSE low \div Half)
    IN  <<high % Half, low % Half>>

\* The loop over input[i..to].  It is cut into runs of HashRun characters, and
\* each round's value is looked at before the next round starts, only to keep
\* the evaluation's nesting shallow.
HashRun == 16
RECURSIVE HashChars(_, _, _, _)
HashChars(input, i, to, hash) ==
    IF i > to THEN hash
    ELSE LET h == HashRound(hash, charCodeAt(input, i))
         IN  IF h[1] < Half THEN HashChars(input, i + 1, to, h) ELSE h

RECURSIVE HashLoop(_, _, _)
HashLoop(input, i, hash) ==
    IF i > Len(input) THEN hash
    ELSE LET to == Min(i + HashRun - 1, Len(input))
             h == HashChars(input, i, to, hash)
         IN  IF h[1] < Half THEN HashLoop(input, to + 1, h) ELSE h

\* Math.abs of a 32-bit value: the magnitude, as an unsigned pattern.
MathAbs(h) == IF h[1] >= SignBit THEN Sub32(<<0, 0>>, h) ELSE h

\* Number.prototype.toString(16) of a non-negative number
RECURSIVE HexOf(_)
HexOf(n) == IF n < 16 THEN <<HexChars[n + 1]>> ELSE Append(HexOf(n \div 16), HexChars[(n % 16) + 1])
toString16(h) ==
    IF h[1] = 0 THEN HexOf(h[2])
    ELSE LET low == HexOf(h[2]) IN HexOf(h[1]) \o repeat("0", 4 - Len(low)) \o low

_generateHash(input) ==
    LET hash == HashLoop(input, 1, <<0, 0>>)
        hex == toString16(MathAbs(hash))
        padding == repeat("0", 64 - Len(hex))
    IN  substring(padding \o hex, 0, 64)

Stars == <<"*","*","*","*">>

\* A variant of _maskPhone with one change: the first four characters are
\* kept.
_maskPhoneFourKept(phone) ==
    IF phone = Null \/ Len(phone) < 7 THEN phone
    ELSE substring(phone, 0, 4) \o Stars \o substring(phone, Len(phone) - 3, Len(phone))

_maskPhone(phone) ==
    IF phone = Null \/ Len(phone) < 7 THEN phone
    ELSE substring(phone, 0, 3) \o Stars \o substring(phone, Len(phone) - 3, Len(phone))

\* A variant of the win test with one change: a draw equal to the win
\* percentage also wins.
DrawOutcomeInclusive(random, winPercentage) ==
    IF random <= winPercentage THEN "WIN" ELSE "LOSE"

\* const isWin = random < CONFIG.WIN_PERCENTAGE, and the result it gives
DrawOutcome(random, winPercentage) ==
    IF random < winPercentage THEN "WIN" ELSE "LOSE"

\* The loop of _determinePrize over Object.entries(prizes), given the value
\* of Math.random() * 100 it draws; past the last entry, Object.keys(...)[0].
\* The labels are not array indices, so the entries come in insertion order.
RECURSIVE PrizeWalk(_, _, _, _)
PrizeWalk(prizes, random, i, cumulative) ==
    IF i > Len(prizes) THEN prizes[1].prize
    ELSE IF random < cumulative + prizes[i].percentage THEN prizes[i].prize
    ELSE PrizeWalk(prizes, random, i + 1, cumulative + prizes[i].percentage)

\* A variant of _determinePrize with one change: only the first tier is
\* looked at, and nothing is returned past it.
_determinePrizeFirstTier(random) ==
    IF random < PRIZES[1].percentage THEN PRIZES[1].prize ELSE Null

_determinePrize(random) == PrizeWalk(PRIZES, random, 1, 0)

(***************************************************************************)
(* localStorage and the ledger the API keeps in it                         *)
(***************************************************************************)
\* Every list is read as JSON.parse(getItem(key) || '[]'), so a missing key
\* reads as the empty list; JSON.stringify and JSON.parse give back the same
\* lists of objects of strings, numbers and null.  setItem is taken to
\* succeed: the storage quota is not exhausted.
EmptyStorage ==
    [evat_scan_history |-> <<>>, scanned_codes |-> <<>>,
     evat_audit_log |-> <<>>, evat_leaderboard |-> <<>>,
     evat_phone |-> Null]

_getScanHistory(st) == st.evat_scan_history

\* Array.prototype.includes compares by SameValueZero.  The elements of the
\* scan history are the objects _storeScan pushed; an object is never the
\* same value as a primitive string.
ObjectSameValueZero(object, primitive) == FALSE
includes(array, value) == \E i \in DOMAIN array : ObjectSameValueZero(array[i], value)

\* Variants of _getRecentScans with one change each: the participant is not
\* compared; the window's edge is counted.
_getRecentScansAnyPhone(phone, st, dateNow) ==
    LET history == st.evat_scan_history
        oneHourAgo == dateNow - ONE_HOUR
    IN  Cardinality({i \in DOMAIN history : parseDate(history[i].timestamp) > oneHourAgo})

_getRecentScansInclusive(phone, st, dateNow) ==
    LET history == st.evat_scan_history
        oneHourAgo == dateNow - ONE_HOUR
    IN  Cardinality({i \in DOMAIN history :
                        /\ history[i].phone = phone
                        /\ parseDate(history[i].timestamp) >= oneHourAgo})

_getRecentScans(phone, st, dateNow) ==
    LET history == st.evat_scan_history
        oneHourAgo == dateNow - ONE_HOUR
    IN  Cardinality({i \in DOMAIN history :
                        /\ history[i].phone = phone
                        /\ parseDate(history[i].timestamp) > oneHourAgo})

\* A variant of _getUserStats with one change: the history is not filtered
\* by phone.
_getUserStatsAnyPhone(phone, st) ==
    LET history == st.evat_scan_history
    IN  [totalScans |-> Len(history),
         totalWins |-> Cardinality({i \in DOMAIN history : history[i].result = "WIN"})]

_getUserStats(phone, st) ==
    LET history == st.evat_scan_history
        userScans == {i \in DOMAIN history : history[i].phone = phone}
    IN  [totalScans |-> Cardinality(userScans),
         totalWins |-> Cardinality({i \in userScans : history[i].result = "WIN"})]

_getStoredLeaderboard(st) == st.evat_leaderboard

\* Array.prototype.find: the first element that satisfies the test, 0 if none
FindUser(leaderboard, phone) ==
    IF \E i \in DOMAIN leaderboard : leaderboard[i].phone = phone
    THEN CHOOSE i \in DOMAIN leaderboard :
            /\ leaderboard[i].phone = phone
            /\ \A j \in 1..(i - 1) : leaderboard[j].phone # phone
    ELSE 0

_updateLeaderboard(phone, isWin, st) ==
    LET stored == _getStoredLeaderboard(st)
        found == FindUser(stored, phone)
        leaderboard == IF found = 0
                       THEN Append(stored, [phone |-> phone, scans |-> 0, wins |-> 0])
                       ELSE stored
        u == IF found = 0 THEN Len(leaderboard) ELSE found
        user == leaderboard[u]
    IN  [st EXCEPT !.evat_leaderboard =
            [leaderboard EXCEPT ![u] =
                [user EXCEPT !.scans = user.scans + 1,
                             !.wins = IF isWin THEN user.wins + 1 ELSE user.wins]]]

\* A variant of _storeScan with one change: the code is not added to the
\* scanned-code list.
_storeScanNoCode(scan, st) ==
    LET st1 == [st EXCEPT !.evat_scan_history =
                    Append(_getScanHistory(st),
                           [qrCode |-> scan.qrCode, phone |-> scan.phone,
                            timestamp |-> scan.timestamp, result |-> scan.result,
                            prize |-> scan.prize])]
        st3 == IF scan.result = "WIN"
               THEN [st1 EXCEPT !.evat_audit_log =
                        <<[timestamp |-> scan.timestamp, phone |-> scan.phone,
                           qrCode |-> scan.qrCode, prize |-> scan.prize,
                           transactionHash |-> scan.transactionHash,
                           randomSeed |-> scan.randomSeed]>> \o st1.evat_audit_log]
               ELSE st1
    IN  _updateLeaderboard(scan.phone, scan.result = "WIN", st3)

_storeScan(scan, st) ==
    LET st1 == [st EXCEPT !.evat_scan_history =
                    Append(_getScanHistory(st),
                           [qrCode |-> scan.qrCode, phone |-> scan.phone,
                            timestamp |-> scan.timestamp, result |-> scan.result,
                            prize |-> scan.prize])]
        st2 == [st1 EXCEPT !.scanned_codes = Append(st1.scanned_codes, scan.qrCode)]
        st3 == IF scan.result = "WIN"
               THEN [st2 EXCEPT !.evat_audit_log =
                        <<[timestamp |-> scan.timestamp, phone |-> scan.phone,
                           qrCode |-> scan.qrCode, prize |-> scan.prize,
                           transactionHash |-> scan.transactionHash,
                           randomSeed |-> scan.randomSeed]>> \o st2.evat_audit_log]
               ELSE st2
    IN  _updateLeaderboard(scan.phone, scan.result = "WIN", st3)

Failure(error) ==
    [success |-> FALSE, error |-> error, result |-> "", prize |-> Null,
     transaction_hash |-> Null, total_scans |-> 0, total_wins |-> 0]

\* _demoScan, given the clock and the three values it draws from Math.random:
\* the response and the storage it leaves.
_demoScan(qrCode, phone, timestamp, st, dateNow, random, random2, randomSeed) ==
    IF ~QR_PATTERN_test(qrCode)
    THEN [response |-> Failure("Invalid QR code format"), storage |-> st]
    ELSE IF includes(_getScanHistory(st), qrCode)
    THEN [response |-> Failure("Duplicate scan"), storage |-> st]
    ELSE IF _getRecentScans(phone, st, dateNow) >= MAX_SCANS_PER_HOUR
    THEN [response |-> Failure("Rate limited"), storage |-> st]
    ELSE LET isWin == DrawOutcome(random, WIN_PERCENTAGE) = "WIN"
             prize == IF isWin THEN _determinePrize(random2) ELSE Null
             transactionHash == _generateHash(qrCode \o phone \o timestamp \o randomSeed)
             stored == _storeScan([qrCode |-> qrCode, phone |-> phone,
                                   timestamp |-> timestamp,
                                   result |-> IF isWin THEN "WIN" ELSE "LOSE",
                                   prize |-> prize,
                                   transactionHash |-> transactionHash,
                                   randomSeed |-> randomSeed], st)
             stats == _getUserStats(phone, stored)
         IN  [response |->
                 [success |-> TRUE, error |-> "",
                  result |-> IF isWin THEN "WIN" ELSE "LOSE",
                  prize |-> prize, transaction_hash |-> transactionHash,
                  total_scans |-> stats.totalScans, total_wins |-> stats.totalWins],
              storage |-> stored]

\* A variant of parseInt with one change: the first digit alone is read.
parseIntFirstDigit(digits) ==
    IF digits = <<>> THEN 0 ELSE DigitValue(digits[1])

\* parseInt(prize.replace(/[^0-9]/g, '')) || 0
RECURSIVE DigitsOf(_)
DigitsOf(s) ==
    IF s = <<>> THEN <<>>
    ELSE (IF IsDigit(Head(s)) THEN <<Head(s)>> ELSE <<>>) \o DigitsOf(Tail(s))
RECURSIVE parseInt(_)
parseInt(digits) ==
    IF digits = <<>> THEN 0
    ELSE parseInt(SubSeq(digits, 1, Len(digits) - 1)) * 10 + DigitValue(digits[Len(digits)])

RECURSIVE SumPayouts(_, _)
SumPayouts(auditLog, i) ==
    IF i > Len(auditLog) THEN 0
    ELSE parseInt(DigitsOf(auditLog[i].prize)) + SumPayouts(auditLog, i + 1)

Dots == <<".",".",".">>

\* _demoAuditLog; total_payouts is the amount that the code then formats.
_demoAuditLog(st) ==
    LET auditLog == st.evat_audit_log
    IN  [entries |->
            [i \in DOMAIN auditLog |->
                [timestamp |-> auditLog[i].timestamp,
                 phone_masked |-> _maskPhone(auditLog[i].phone),
                 prize |-> auditLog[i].prize,
                 transaction_hash |-> auditLog[i].transactionHash,
                 verification_data |->
                    [qr_hash |-> IF auditLog[i].qrCode # <<>>
                                 THEN substring(_generateHash(auditLog[i].qrCode), 0, 16)
                                 ELSE Dots,
                     random_seed |-> IF auditLog[i].randomSeed # <<>>
                                     THEN auditLog[i].randomSeed ELSE Dots,
                     combined_hash |-> auditLog[i].transactionHash]]],
         total_payouts |-> SumPayouts(auditLog, 1),
         total_winners |-> Len(auditLog)]

\* _getBadge: the badge's name, null below ten scans (the emoji goes with the name)
_getBadge(scans) ==
    IF scans >= 50 THEN <<"G","o","l","d">>
    ELSE IF scans >= 25 THEN <<"S","i","l","v","e","r">>
    ELSE IF scans >= 10 THEN <<"B","r","o","n","z","e">>
    ELSE Null

\* demoUsers of _demoLeaderboard
Demo1 == <<"0","2","4","1","2","3","4","5","6","7">>
Demo2 == <<"0","5","5","1","2","3","4","5","6","7">>
Demo3 == <<"0","2","7","1","2","3","4","5","6","7">>
Demo4 == <<"0","2","0","1","2","3","4","5","6","7">>
Demo5 == <<"0","5","4","1","2","3","4","5","6","7">>
demoUsers ==
    << [phone |-> Demo1, scans |-> 45, wins |-> 5],
       [phone |-> Demo2, scans |-> 38, wins |-> 3],
       [phone |-> Demo3, scans |-> 32, wins |-> 4],
       [phone |-> Demo4, scans |-> 28, wins |-> 2],
       [phone |-> Demo5, scans |-> 22, wins |-> 3] >>

\* demoUsers.forEach: a demo user is pushed unless its phone is there
RECURSIVE PushDemoUsers(_, _)
PushDemoUsers(leaderboard, i) ==
    IF i > Len(demoUsers) THEN leaderboard
    ELSE PushDemoUsers(IF FindUser(leaderboard, demoUsers[i].phone) = 0
                       THEN Append(leaderboard, demoUsers[i]) ELSE leaderboard,
                       i + 1)

\* The list _demoLeaderboard holds before it sorts: the stored rows, the demo
\* users when fewer than five rows are stored, and the caller, whose row gets
\* the totals of _getUserStats
LeaderboardBeforeSort(phone, st) ==
    LET stored == _getStoredLeaderboard(st)
        userStats == _getUserStats(phone, st)
        leaderboard == IF Len(stored) < 5 THEN PushDemoUsers(stored, 1) ELSE stored
        existingUser == FindUser(leaderboard, phone)
    IN  IF existingUser # 0
        THEN [leaderboard EXCEPT ![existingUser] =
                 [@ EXCEPT !.scans = userStats.totalScans, !.wins = userStats.totalWins]]
        ELSE IF userStats.totalScans > 0
        THEN Append(leaderboard, [phone |-> phone, scans |-> userStats.totalScans,
                                  wins |-> userStats.totalWins])
        ELSE leaderboard

\* A variant of the sort with one change: an element goes before the
\* elements with the same scans.
RECURSIVE SortByScansUnstable(_)
SortByScansUnstable(leaderboard) ==
    IF leaderboard = <<>> THEN <<>>
    ELSE LET sorted == SortByScansUnstable(SubSeq(leaderboard, 1, Len(leaderboard) - 1))
             x == leaderboard[Len(leaderboard)]
             k == Cardinality({i \in DOMAIN sorted : sorted[i].scans > x.scans})
         IN  SubSeq(sorted, 1, k) \o <<x>> \o SubSeq(sorted, k + 1, Len(sorted))

\* leaderboard.sort((a, b) => b.scans - a.scans): Array.prototype.sort is
\* stable, so an element stays behind the earlier elements with the same scans
RECURSIVE SortByScans(_)
SortByScans(leaderboard) ==
    IF leaderboard = <<>> THEN <<>>
    ELSE LET sorted == SortByScans(SubSeq(leaderboard, 1, Len(leaderboard) - 1))
             x == leaderboard[Len(leaderboard)]
             k == Cardinality({i \in DOMAIN sorted : sorted[i].scans >= x.scans})
         IN  SubSeq(sorted, 1, k) \o <<x>> \o SubSeq(sorted, k + 1, Len(sorted))

\* _demoLeaderboard.  `period` is not read.  user_rank is userRank || null;
\* a rank is at least 1, and null is written 0.
_demoLeaderboard(phone, period, st) ==
    LET userStats == _getUserStats(phone, st)
        leaderboard == SortByScans(LeaderboardBeforeSort(phone, st))
        userRank == FindUser(leaderboard, phone)
    IN  [leaderboard |->
            [index \in 1..Min(Len(leaderboard), 10) |->
                LET user == leaderboard[index]
                IN  [rank |-> index,
                     phone_masked |-> _maskPhone(user.phone),
                     phone |-> user.phone,
                     scans |-> user.scans,
                     wins |-> user.wins,
                     badge |-> _getBadge(user.scans)]],
         user_rank |-> userRank,
         user_scans |-> userStats.totalScans,
         user_wins |-> userStats.totalWins]

\* A variant of _demoLeaderboardStorage with one change: the list is saved
\* before it is sorted.
_demoLeaderboardStorageSaved(phone, period, st) ==
    [st EXCEPT !.evat_leaderboard = LeaderboardBeforeSort(phone, st)]

\* What _demoLeaderboard leaves in localStorage: it calls getItem only, and
\* the rows it pushes and rewrites are of the array JSON.parse returned
_demoLeaderboardStorage(phone, period, st) == st

\* A variant of clearDemoData with one change: the audit log's key is not
\* removed.
clearDemoDataKeepsAudit(st) == [EmptyStorage EXCEPT !.evat_audit_log = st.evat_audit_log]

clearDemoData(st) == EmptyStorage

(***************************************************************************)
(* Inputs                                                                  *)
(***************************************************************************)
\* A simple token, a signed verification URL and a string of neither grammar
CodeB0 == <<"G","R","A","-","V","A","T","-","2","0","2","4","-","A","A","A","A","-","A","A","A","A","-","A","A","B","0">>
CodeURL == <<"h","t","t","p","s",":","/","/","e","v","a","t",".","g","r","a",".","g","o","v",".","g","h","/","v","e","r","i","f","y","?","r","c","p","t","=","A","B","1","2">>
CodeBad == <<"N","O","T","-","A","-","R","E","C","E","I","P","T">>
Codes == {CodeB0, CodeURL, CodeBad}

\* Two participants whose numbers differ in the middle digits only
PhoneA == <<"0","2","4","1","2","3","4","5","6","7">>
PhoneB == <<"0","2","4","1","1","1","1","5","6","7">>
Phones == {PhoneA, PhoneB}

\* Values of Math.random() * 100: on both sides of WIN_PERCENTAGE for the
\* outcome, and one inside each prize tier's share (the first tier's last,
\* the second's first, the third's first) for the tier
RandomDraws == {9, 10}
PrizeDraws == {69, 70, 95}

\* Values of Math.random().toString(36).substring(2, 15); the two differ in
\* their last two characters
SeedC1 == <<"k","7","x","2","m","9","q","4","t","c","1">>
SeedAO == <<"k","7","x","2","m","9","q","4","t","a","o">>
Seeds == {SeedC1, SeedAO}

\* The clock moves by half the rate limit's window or by the whole of it.
TickMinutes == {ONE_HOUR \div 2, ONE_HOUR}

(***************************************************************************)
(* Initial states: an empty localStorage, or one that an earlier session   *)
(* left with ten redemptions of PhoneA at minute 0.                        *)
(***************************************************************************)
EarlierCode(n) == SubSeq(CodeB0, 1, 25) \o <<"A", DigitChars[n]>>

RECURSIVE EarlierSession(_)
EarlierSession(n) ==
    IF n = 0 THEN EmptyStorage
    ELSE _demoScan(EarlierCode(n), PhoneA, toISOString(0), EarlierSession(n - 1),
                   0, WIN_PERCENTAGE, 0, SeedC1).storage

ExecOf(qrCode, phone, timestamp, randomSeed, response) ==
    [qrCode |-> qrCode, phone |-> phone, timestamp |-> timestamp,
     randomSeed |-> randomSeed, result |-> response.result,
     prize |-> response.prize, transactionHash |-> response.transaction_hash]

NoCall == [kind |-> "none"]

\* The Scanner object as the script leaves it.  html5QrCode is 0 for null,
\* else the position in camera.objects of the Html5Qrcode object it holds;
\* onScanCallback is FALSE for null, TRUE for the callback init was given
ScannerInit ==
    [html5QrCode |-> 0, isScanning |-> FALSE, onScanCallback |-> FALSE]

\* No Html5Qrcode object exists before Scanner.init, and no call awaits one.
\* An object is "NOT_STARTED", "STARTING", "SCANNING", "PAUSED" or
\* "STOPPING"; startedBusy tells that an object's start was invoked while the
\* object was starting or running
CameraInit ==
    [objects |-> <<>>, awaiting |-> <<>>, startedBusy |-> FALSE]

\* The scanner page as loaded: the result modal is not active, no timer of
\* closeModal is set and handleScan has taken no path yet
PageInit ==
    [modal |-> FALSE, timers |-> 0, path |-> "none"]

\* App.init: the phone is read from localStorage, and a registered
\* participant's totals are loaded from getLeaderboard's user_scans and
\* user_wins, which _demoLeaderboard takes from _getUserStats
AppInit(st) ==
    [userPhone |-> st.evat_phone,
     isRegistered |-> st.evat_phone # Null /\ st.evat_phone # <<>>,
     totalScans |-> IF st.evat_phone # Null /\ st.evat_phone # <<>>
                    THEN _getUserStats(st.evat_phone, st).totalScans ELSE 0,
     totalWins |-> IF st.evat_phone # Null /\ st.evat_phone # <<>>
                   THEN _getUserStats(st.evat_phone, st).totalWins ELSE 0,
     lastScannedCode |-> Null,
     lastScanTime |-> 0]

Init ==
    /\ demoMode \in BOOLEAN
    /\ now = 0
    /\ localStorage \in {EmptyStorage, EarlierSession(MAX_SCANS_PER_HOUR)}
    /\ app = AppInit(localStorage)
    /\ scanner = ScannerInit
    /\ camera = CameraInit
    /\ page = PageInit
    /\ execs = {}
    /\ inflight = <<>>
    /\ last = NoCall
    /\ refused = [p \in Phones |-> -1]
    /\ calls = 0
    /\ ticks = 0

(***************************************************************************)
(* Actions                                                                 *)
(***************************************************************************)
\* The oldest timestamp inside the trailing hour among phone's entries
OldestCounted(phone, st, dateNow) ==
    LET counted == {parseDate(st.evat_scan_history[i].timestamp) :
                        i \in {j \in DOMAIN st.evat_scan_history :
                                  /\ st.evat_scan_history[j].phone = phone
                                  /\ parseDate(st.evat_scan_history[j].timestamp) > dateNow - ONE_HOUR}}
    IN  IF counted = {} THEN dateNow
        ELSE CHOOSE t \in counted : \A u \in counted : t <= u

\* _demoScan runs for a call entered at `timestamp` and its result is returned.
LocalScan(qrCode, phone, timestamp) ==
    \E random \in RandomDraws :
    \E random2 \in (IF random < WIN_PERCENTAGE THEN PrizeDraws ELSE {0}) :
    \E randomSeed \in Seeds :
        LET out == _demoScan(qrCode, phone, timestamp, localStorage, now,
                             random, random2, randomSeed)
        IN  /\ localStorage' = out.storage
            /\ last' = [kind |-> "scan", via |-> "local", qrCode |-> qrCode,
                        phone |-> phone, timestamp |-> timestamp, at |-> now,
                        wasRefused |-> refused[phone], response |-> out.response]
            /\ execs' = IF out.response.success
                        THEN execs \cup {ExecOf(qrCode, phone, timestamp, randomSeed, out.response)}
                        ELSE execs
            /\ refused' = IF out.response.error = "Rate limited"
                          THEN [refused EXCEPT ![phone] = OldestCounted(phone, localStorage, now)]
                          ELSE IF out.response.success
                          THEN [refused EXCEPT ![phone] = -1]
                          ELSE refused

\* submitScan with DEMO_MODE set: _demoScan at once
SubmitScanDemo ==
    /\ demoMode
    /\ calls < MaxCalls
    /\ \E qrCode \in Codes, phone \in Phones :
          LocalScan(qrCode, phone, toISOString(now))
    /\ calls' = calls + 1
    /\ UNCHANGED <<scanner, camera, page, demoMode, app, now, inflight, ticks>>

\* submitScan with the backend configured: takes the timestamp, awaits fetch
SubmitScanFetch ==
    /\ ~demoMode
    /\ calls < MaxCalls
    /\ Len(inflight) < MaxInflight
    /\ \E qrCode \in Codes, phone \in Phones :
          inflight' = Append(inflight, [qrCode |-> qrCode, phone |-> phone,
                                        timestamp |-> toISOString(now)])
    /\ calls' = calls + 1
    /\ UNCHANGED <<scanner, camera, page, demoMode, app, now, localStorage, last, execs, refused, ticks>>

RemoveAt(s, i) == SubSeq(s, 1, i - 1) \o SubSeq(s, i + 1, Len(s))

\* the backend answered: its JSON is returned as it is
FetchOk ==
    /\ \E i \in DOMAIN inflight :
          /\ inflight' = RemoveAt(inflight, i)
          /\ last' = [kind |-> "scan", via |-> "remote", qrCode |-> inflight[i].qrCode,
                      phone |-> inflight[i].phone, timestamp |-> inflight[i].timestamp,
                      at |-> now]
    /\ UNCHANGED <<scanner, camera, page, demoMode, app, now, localStorage, execs, refused, calls, ticks>>

\* A variant of FetchFailed with one change: the fallback takes its timestamp
\* when it runs.
FetchFailedStampsAnew ==
    /\ \E i \in DOMAIN inflight :
          /\ inflight' = RemoveAt(inflight, i)
          /\ LocalScan(inflight[i].qrCode, inflight[i].phone, toISOString(now))
    /\ UNCHANGED <<scanner, camera, page, demoMode, app, now, calls, ticks>>

\* fetch threw or the answer was not ok: the catch falls back to _demoScan
FetchFailed ==
    /\ \E i \in DOMAIN inflight :
          /\ inflight' = RemoveAt(inflight, i)
          /\ LocalScan(inflight[i].qrCode, inflight[i].phone, inflight[i].timestamp)
    /\ UNCHANGED <<scanner, camera, page, demoMode, app, now, calls, ticks>>

\* getAuditLog: _demoAuditLog in demo mode and when the backend fails
GetAuditLog ==
    /\ calls < MaxCalls
    /\ calls' = calls + 1
    /\ \E backendAnswers \in (IF demoMode THEN {FALSE} ELSE BOOLEAN) :
          last' = IF backendAnswers
                  THEN [kind |-> "audit", via |-> "remote"]
                  ELSE [kind |-> "audit", via |-> "local",
                        response |-> _demoAuditLog(localStorage)]
    /\ UNCHANGED <<scanner, camera, page, demoMode, app, now, localStorage, inflight, execs, refused, ticks>>

ClearDemoData ==
    /\ calls < MaxCalls
    /\ calls' = calls + 1
    /\ localStorage' = clearDemoData(localStorage)
    /\ last' = [kind |-> "clear"]
    /\ UNCHANGED <<scanner, camera, page, demoMode, app, now, inflight, execs, refused, ticks>>

\* Time passes; it is followed while a call can still begin or end.
Tick ==
    /\ ticks < MaxTicks
    /\ calls < MaxCalls \/ inflight # <<>>
    /\ \E minutes \in TickMinutes : now' = now + minutes
    /\ ticks' = ticks + 1
    /\ UNCHANGED <<scanner, camera, page, demoMode, app, localStorage, inflight, last, execs, refused, calls>>

Next ==
    \/ SubmitScanDemo
    \/ SubmitScanFetch
    \/ FetchOk
    \/ FetchFailed
    \/ GetAuditLog
    \/ ClearDemoData
    \/ Tick

Spec == Init /\ [][Next]_vars

(***************************************************************************)
(* Properties                                                              *)
(***************************************************************************)
History == localStorage.evat_scan_history

\* A step in which a submitScan call returns what the local simulation gave:
\* at once in demo mode, from the catch when the backend failed.
LocalScanReturns ==
    /\ last'.kind = "scan"
    /\ last'.via = "local"
    /\ \/ demoMode /\ calls' = calls + 1
       \/ ~demoMode /\ calls' = calls /\ Len(inflight') < Len(inflight)

\* The state shows the result of a local submitScan as the last thing done.
LocalScanDone == last.kind = "scan" /\ last.via = "local"

\* The scans the stored leaderboard aggregates hold for a participant
AggregateScans(st, phone) ==
    LET rows == {i \in DOMAIN st.evat_leaderboard : st.evat_leaderboard[i].phone = phone}
    IN  IF rows = {} THEN 0
        ELSE st.evat_leaderboard[CHOOSE i \in rows : \A j \in rows : i <= j].scans

\* C1: the ledger holds at most one redemption entry per receipt uniqueId
\* (a second submitScan for a recorded receipt never adds an entry).
C1_OneEntryPerReceipt ==
    \A i, j \in DOMAIN History :
        i # j => getUniqueId(parse(History[i].qrCode)) # getUniqueId(parse(History[j].qrCode))

\* C2: a submitScan that returns either failed, with one of the three errors
\* and the whole storage as it was, or succeeded, and then the history has
\* one more entry (the call's), the scanned-code list one more code (the
\* call's), the participant's aggregate one more scan and nobody else's any,
\* and the audit log one more entry exactly when the result is a WIN.
C2_Effect ==
    LET r == last'.response
        old == localStorage
        new == localStorage'
        newest == new.evat_scan_history[Len(new.evat_scan_history)]
    IN  IF ~r.success
        THEN /\ r.error \in {"Invalid QR code format", "Duplicate scan", "Rate limited"}
             /\ new = old
        ELSE /\ Len(new.evat_scan_history) = Len(old.evat_scan_history) + 1
             /\ SubSeq(new.evat_scan_history, 1, Len(old.evat_scan_history)) = old.evat_scan_history
             /\ newest.qrCode = last'.qrCode
             /\ newest.phone = last'.phone
             /\ newest.timestamp = last'.timestamp
             /\ newest.result = r.result
             /\ new.scanned_codes = Append(old.scanned_codes, last'.qrCode)
             /\ AggregateScans(new, last'.phone) = AggregateScans(old, last'.phone) + 1
             /\ \A p \in Phones \ {last'.phone} : AggregateScans(new, p) = AggregateScans(old, p)
             /\ Len(new.evat_audit_log) =
                    Len(old.evat_audit_log) + (IF r.result = "WIN" THEN 1 ELSE 0)

C2_AllOrNothing == [][LocalScanReturns => C2_Effect]_vars

\* C2's case: a WIN was recorded, and history, code list and audit log show it.
C2_WinRecorded ==
    /\ LocalScanDone
    /\ last.response.success
    /\ last.response.result = "WIN"
    /\ History[Len(History)].qrCode = last.qrCode
    /\ localStorage.scanned_codes[Len(localStorage.scanned_codes)] = last.qrCode
    /\ localStorage.evat_audit_log[1].transactionHash = last.response.transaction_hash

\* The entries of a participant whose timestamp is less than an hour old
C3_CountRecent(phone) ==
    Cardinality({i \in DOMAIN History :
                    /\ History[i].phone = phone
                    /\ now - parseDate(History[i].timestamp) < ONE_HOUR})

\* C3: a submitScan of a participant who has MAX_SCANS_PER_HOUR or more entries
\* inside the trailing hour fails and records nothing, with the rate-limited
\* error for every code that passes the validity step; and the rate-limited
\* error is given to nobody whose own count is below the cap.
C3_Effect ==
    LET r == last'.response
        count == C3_CountRecent(last'.phone)
    IN  /\ count >= MAX_SCANS_PER_HOUR =>
              /\ ~r.success
              /\ localStorage' = localStorage
              /\ r.error # "Invalid QR code format" => r.error = "Rate limited"
              /\ isV1Format(last'.qrCode) => r.error = "Rate limited"
        /\ r.error = "Rate limited" => count >= MAX_SCANS_PER_HOUR

C3_RateLimit == [][LocalScanReturns => C3_Effect]_vars

\* C3's case: one participant stands refused at the cap, and at the same
\* moment the other participant's scan was accepted.
C3_OtherAccepted ==
    /\ LocalScanDone
    /\ last.response.success
    /\ last.phone = PhoneB
    /\ last.at = now
    /\ refused[PhoneA] # -1
    /\ Len(History) = MAX_SCANS_PER_HOUR + 1
    /\ \A i \in 1..MAX_SCANS_PER_HOUR :
          History[i].phone = PhoneA /\ parseDate(History[i].timestamp) = now

\* C4: a participant who was refused as rate limited, and has recorded nothing
\* since, is accepted with a code that passes the validity step once an hour
\* has passed since the oldest entry counted at the refusal.
C4_AcceptedAfterWindow ==
    (/\ LocalScanDone
     /\ last.wasRefused # -1
     /\ isV1Format(last.qrCode)
     /\ last.at >= last.wasRefused + ONE_HOUR) => last.response.success

\* C4's case: refused, then accepted exactly an hour after the oldest counted
\* entry, with the counted entries still in the ledger.
C4_AcceptedAtTheHour ==
    /\ LocalScanDone
    /\ last.wasRefused # -1
    /\ last.at = last.wasRefused + ONE_HOUR
    /\ last.response.success
    /\ Len(History) = MAX_SCANS_PER_HOUR + 1

\* C5: submitScan fails as invalid exactly when QRParser.parse reports
\* valid = false for the code.
C5_InvalidIffParserRejects ==
    LocalScanDone =>
        ((last.response.error = "Invalid QR code format") <=> ~parse(last.qrCode).valid)

\* C6: two recorded redemptions of the same receipt, participant, timestamp
\* and seed have the same outcome and prize.
C6_OutcomeOfCommittedInputs ==
    \A e1, e2 \in execs :
        (/\ e1.qrCode = e2.qrCode /\ e1.phone = e2.phone
         /\ e1.timestamp = e2.timestamp /\ e1.randomSeed = e2.randomSeed)
            => (e1.result = e2.result /\ e1.prize = e2.prize)

\* How many of the four committed inputs differ between two redemptions
InputsDiffering(e1, e2) ==
    Cardinality({f \in {"qrCode", "phone", "timestamp", "randomSeed"} : e1[f] # e2[f]})

\* C7: equal inputs give equal transaction hashes, and inputs that differ in
\* exactly one of the four give different transaction hashes.
C7_HashSensitive ==
    \A e1, e2 \in execs :
        /\ InputsDiffering(e1, e2) = 0 => e1.transactionHash = e2.transactionHash
        /\ InputsDiffering(e1, e2) = 1 => e1.transactionHash # e2.transactionHash

\* C8: two entries of the audit log that getAuditLog returns in this state
\* with equal published fields have equal transaction hashes.
C8_PublishedFieldsGiveHash ==
    LET entries == _demoAuditLog(localStorage).entries
    IN  \A i, j \in DOMAIN entries :
            (/\ entries[i].timestamp = entries[j].timestamp
             /\ entries[i].phone_masked = entries[j].phone_masked
             /\ entries[i].prize = entries[j].prize
             /\ entries[i].verification_data.qr_hash = entries[j].verification_data.qr_hash
             /\ entries[i].verification_data.random_seed = entries[j].verification_data.random_seed)
                => entries[i].transaction_hash = entries[j].transaction_hash

\* C9: once a submitScan has recorded a redemption, every entry of the
\* persisted scan history carries a transactionHash and a randomSeed, and the
\* newest carries the hash that submitScan returned.
C9_EntriesCarryHashAndSeed ==
    (LocalScanDone /\ last.response.success) =>
        /\ \A i \in DOMAIN History :
              {"transactionHash", "randomSeed"} \subseteq DOMAIN History[i]
        /\ History[Len(History)].transactionHash = last.response.transaction_hash

\* The prize is there exactly for a WIN, and then it is a key of CONFIG.PRIZES
PrizeFitsResult(result, prize) ==
    /\ result \in {"WIN", "LOSE"}
    /\ (prize # Null) <=> (result = "WIN")
    /\ result = "WIN" => prize \in PrizeKeys

\* C10: in every recorded entry and in every successful submitScan result the
\* prize is present if and only if the result is WIN; a WIN names a key of the
\* prize table and a LOSE has a null prize.
C10_PrizeIffWin ==
    /\ \A i \in DOMAIN History : PrizeFitsResult(History[i].result, History[i].prize)
    /\ (LocalScanDone /\ last.response.success) =>
          PrizeFitsResult(last.response.result, last.response.prize)

\* C10's case: the ledger holds a LOSE and a WIN of the last tier, the WIN
\* returned by the last call.
C10_WinAndLoseRecorded ==
    /\ LocalScanDone
    /\ last.response.success
    /\ last.response.prize = CediFifty
    /\ \E i \in DOMAIN History : History[i].result = "LOSE"
    /\ \E i \in DOMAIN History : History[i].result = "WIN" /\ History[i].prize = CediFifty

\* The number of a participant's entries in a history, all of them or the
\* WINs only
RECURSIVE LedgerCount(_, _, _)
LedgerCount(history, phone, winsOnly) ==
    IF history = <<>> THEN 0
    ELSE LedgerCount(Tail(history), phone, winsOnly)
         + (IF /\ Head(history).phone = phone
               /\ (winsOnly => Head(history).result = "WIN")
            THEN 1 ELSE 0)

C13_Effect ==
    LET r == last'.response
        p == last'.phone
        old == localStorage.evat_scan_history
        new == localStorage'.evat_scan_history
    IN  r.success =>
           /\ r.total_scans = LedgerCount(new, p, FALSE)
           /\ r.total_scans = LedgerCount(old, p, FALSE) + 1
           /\ r.total_wins = LedgerCount(new, p, TRUE)
           /\ r.total_wins = LedgerCount(old, p, TRUE)
                             + (IF r.result = "WIN" THEN 1 ELSE 0)
           /\ r.total_wins <= r.total_scans
           /\ \A q \in Phones \ {p} :
                 /\ LedgerCount(new, q, FALSE) = LedgerCount(old, q, FALSE)
                 /\ LedgerCount(new, q, TRUE) = LedgerCount(old, q, TRUE)

\* C13: a successful submitScan of participant p returns p's updated totals:
\* total_scans is the number of p's ledger entries with the one just recorded
\* (the previous total plus 1), total_wins the number of p's WIN entries (the
\* previous total plus 1 exactly on a WIN), total_wins <= total_scans, and
\* the entries of other participants do not count.
C13_UpdatedTotals == [][LocalScanReturns => C13_Effect]_vars

\* C13's case: PhoneB's first redemption, a WIN, returned totals 1 and 1
\* while the ledger holds entries of PhoneA.
C13_TotalsBesideOthers ==
    /\ LocalScanDone
    /\ last.response.success
    /\ last.phone = PhoneB
    /\ last.response.total_scans = 1
    /\ last.response.total_wins = 1
    /\ LedgerCount(History, PhoneA, FALSE) > 0

\* The WIN entries of a history, in the order they were recorded
RECURSIVE WinsOf(_)
WinsOf(history) ==
    IF history = <<>> THEN <<>>
    ELSE (IF Head(history).result = "WIN" THEN <<Head(history)>> ELSE <<>>)
         \o WinsOf(Tail(history))

\* What getAuditLog returns in this state from the local log
AuditEntries == _demoAuditLog(localStorage).entries

\* The returned entries are the ledger's WIN redemptions, each once, the one
\* recorded last on top
AuditHoldsTheWins ==
    LET wins == WinsOf(History)
    IN  /\ Len(AuditEntries) = Len(wins)
        /\ \A i \in DOMAIN AuditEntries :
              LET w == wins[Len(wins) + 1 - i]
              IN  /\ AuditEntries[i].timestamp = w.timestamp
                  /\ AuditEntries[i].prize = w.prize
                  /\ AuditEntries[i].phone_masked = _maskPhone(w.phone)

\* C14: in every reachable state the audit log that getAuditLog returns holds
\* exactly the WIN redemptions of the ledger, each once and no LOSE, newest
\* first: the timestamps do not increase down the list, also when submitScan
\* calls overlap and are recorded in another order than they were started.
C14_AuditNewestFirst ==
    /\ AuditHoldsTheWins
    /\ \A i \in 1..(Len(AuditEntries) - 1) :
          parseDate(AuditEntries[i].timestamp) >= parseDate(AuditEntries[i + 1].timestamp)

\* The numeric value of a prize of CONFIG.PRIZES
PrizeValue(prize) ==
    IF prize = CediFive THEN 5
    ELSE IF prize = CediTen THEN 10
    ELSE IF prize = CediFifty THEN 50
    ELSE 0

RECURSIVE PayoutOf(_)
PayoutOf(wins) ==
    IF wins = <<>> THEN 0 ELSE PrizeValue(Head(wins).prize) + PayoutOf(Tail(wins))

\* C22: the audit totals agree with the ledger in every reachable state:
\* total_winners equals the number of WIN redemption entries recorded since
\* the last reset, and the total payout equals the sum of the numeric values
\* of the prizes of exactly those entries.
C22_AuditTotalsOfLedger ==
    /\ _demoAuditLog(localStorage).total_winners = Len(WinsOf(History))
    /\ _demoAuditLog(localStorage).total_payouts = PayoutOf(WinsOf(History))

\* Two redemptions won, one the 5 cedi prize and one the 10 cedi prize.
C22_TwoPrizesPaid ==
    /\ Len(WinsOf(History)) = 2
    /\ _demoAuditLog(localStorage).total_payouts = 15

\* The entries of a participant stamped within the 60 minutes that begin
\* with one of them
WithinSpan(history, i) ==
    {j \in DOMAIN history :
        /\ history[j].phone = history[i].phone
        /\ parseDate(history[j].timestamp) >= parseDate(history[i].timestamp)
        /\ parseDate(history[j].timestamp) < parseDate(history[i].timestamp) + ONE_HOUR}

\* C29: no participant exceeds the hourly cap in recorded data: in every
\* reachable state, also when several submitScan calls of one participant
\* awaited the backend and fell back to local recording with their original
\* timestamps, the ledger holds at most MAX_SCANS_PER_HOUR entries of one
\* participant whose timestamps lie within one 60-minute span.
C29_CapHoldsInLedger ==
    \A i \in DOMAIN History :
        Cardinality(WithinSpan(History, i)) <= MAX_SCANS_PER_HOUR

\* The ledger holds a redemption of this code
Redeemed(history, qrCode) ==
    \E i \in DOMAIN history : history[i].qrCode = qrCode

\* C24: errors are reported in the order of the transaction's steps: a code
\* the format test rejects fails as invalid whatever the ledger holds; a valid
\* receipt that is already redeemed fails with the duplicate error, also when
\* the submitting participant is at the hourly cap; and the rate-limited
\* error is returned only for a valid receipt that has not been redeemed.
C24_ErrorsInStepOrder ==
    [][LocalScanReturns =>
          LET r == last'.response
              valid == QR_PATTERN_test(last'.qrCode)
              redeemed == Redeemed(History, last'.qrCode)
          IN  /\ ~valid => r.error = "Invalid QR code format"
              /\ (valid /\ redeemed) => r.error = "Duplicate scan"
              /\ r.error = "Rate limited" => (valid /\ ~redeemed)]_vars

\* A variant of phoneRegex with one change: the second character is any digit.
phoneRegex_testAnySecond(phone) ==
    /\ Len(phone) = 10
    /\ phone[1] = "0"
    /\ \A i \in 2..10 : IsDigit(phone[i])

\* phoneRegex: /^0[235][0-9]{8}$/
phoneRegex_test(phone) ==
    /\ Len(phone) = 10
    /\ phone[1] = "0"
    /\ phone[2] \in {"2", "3", "5"}
    /\ \A i \in 3..10 : IsDigit(phone[i])

\* What is typed into the registration form: two numbers of the format, one
\* too short, one with a second digit outside the format and one with a
\* digit too many
PhoneShort == <<"0","2","4","1","2","3">>
PhoneOther == <<"0","7","4","1","2","3","4","5","6","7">>
PhoneLong == <<"0","2","4","1","2","3","4","5","6","7","8">>
RegisterInputs == {PhoneA, PhoneB, PhoneShort, PhoneOther, PhoneLong}

(***************************************************************************)
(* The functions on their own: a step applies one of them to inputs drawn   *)
(* from the sets below and leaves the application in `last`.  They keep no  *)
(* state, so a behaviour holds one application.                             *)
(***************************************************************************)
\* Prize tables: CONFIG.PRIZES, two tiers whose shares sum to 60, a single
\* tier, and a first tier with no share.
PrizeTables ==
    { PRIZES,
      << [prize |-> CediFive, percentage |-> 30], [prize |-> CediTen, percentage |-> 30] >>,
      << [prize |-> CediFifty, percentage |-> 100] >>,
      << [prize |-> CediFive, percentage |-> 0], [prize |-> CediTen, percentage |-> 100] >> }

\* Win percentages: never, CONFIG.WIN_PERCENTAGE, always
WinPercentages == {0, WIN_PERCENTAGE, 100}

\* Values of Math.random() * 100, which is below 100, around every boundary
\* of the sets above
OutcomeDraws == {0, WIN_PERCENTAGE - 1, WIN_PERCENTAGE, 50, 99}
TierDraws == {0, 29, 30, 59, 60, 69, 70, 94, 95, 99}

InitFunctions ==
    /\ demoMode = TRUE
    /\ now = 0
    /\ localStorage = EmptyStorage
    /\ app = AppInit(localStorage)
    /\ scanner = ScannerInit
    /\ camera = CameraInit
    /\ page = PageInit
    /\ execs = {}
    /\ inflight = <<>>
    /\ last = NoCall
    /\ refused = [p \in Phones |-> -1]
    /\ calls = 0
    /\ ticks = 0

\* The draw of _demoScan under one configuration: the win test, then
\* _determinePrize's loop on a WIN
Draw ==
    /\ last = NoCall
    /\ \E prizes \in PrizeTables, winPercentage \in WinPercentages,
          random \in OutcomeDraws, random2 \in TierDraws :
          LET result == DrawOutcome(random, winPercentage)
          IN  last' = [kind |-> "draw", prizes |-> prizes,
                       winPercentage |-> winPercentage,
                       random |-> random, random2 |-> random2,
                       result |-> result,
                       prize |-> IF result = "WIN"
                                 THEN PrizeWalk(prizes, random2, 1, 0) ELSE Null]
    /\ UNCHANGED <<scanner, camera, page, demoMode, app, now, localStorage, execs, inflight, refused, calls, ticks>>

\* Participant ids given to _maskPhone: numbers of the registration format
\* with every middle over two digits, the two participants, and ids that are
\* not of the format (six, seven and nine characters)
PhoneSeven == <<"0","2","4","1","5","6","7">>
PhoneNine == <<"0","2","4","1","2","3","5","6","7">>
MaskInputs ==
    { <<"0", a, "4", m[1], m[2], m[3], m[4], "5", "6", "7">> :
          a \in {"2", "5"}, m \in [1..4 -> {"1", "9"}] }
    \cup {PhoneA, PhoneB, PhoneShort, PhoneSeven, PhoneNine}

\* _maskPhone applied to an id
Mask ==
    /\ last = NoCall
    /\ \E phone \in MaskInputs :
          last' = [kind |-> "mask", phone |-> phone, masked |-> _maskPhone(phone)]
    /\ UNCHANGED <<scanner, camera, page, demoMode, app, now, localStorage, execs, inflight, refused, calls, ticks>>

\* What a scanner can decode.  Signed URLs are built from a prefix the v2
\* pattern matches and a list of parameters; beside them stand tokens of the
\* v1 grammar and near misses of both.
SignedPrefixes ==
    { <<"h","t","t","p","s",":","/","/","e","v","a","t",".","g","r","a",".","g","o","v",".","g","h","/","v","e","r","i","f","y","?">>,
      <<"H","T","T","P","S",":","/","/","E","V","A","T",".","G","R","A",".","G","O","V",".","G","H","/","v","e","r","i","f","y","?">>,
      <<"h","t","t","p",":","/","/","v","s","d","c",".","v","a","t","-","g","h",".","c","o","m","/","v","e","r","i","f","y","?">> }

ParamRcpt == <<<<"r","c","p","t">>, <<"A","B","1","2">>>>
ParamRcptAgain == <<<<"r","c","p","t">>, <<"Z","Z","9","9">>>>
ParamSdc == <<<<"s","d","c">>, <<"S","1">>>>
ParamTs == <<<<"t","s">>, <<"2","0","2","4","0","1","0","1","1","2","0","0","0","0">>>>
ParamSig == <<<<"s","i","g">>, <<"F","0">>>>
QueryParams == {ParamRcpt, ParamRcptAgain, ParamSdc, ParamTs, ParamSig}
MaxParams == 2
ParamLists == UNION {[1..n -> QueryParams] : n \in 0..MaxParams}

\* The query string of a parameter list: key=value pieces joined by '&'
RECURSIVE JoinParams(_)
JoinParams(params) ==
    IF params = <<>> THEN <<>>
    ELSE Head(params)[1] \o <<"=">> \o Head(params)[2]
         \o (IF Len(params) > 1 THEN <<"&">> ELSE <<>>) \o JoinParams(Tail(params))

BuildURL(prefix, params) == prefix \o JoinParams(params)

CodeLower == <<"g","r","a","-","v","a","t","-","2","0","2","4","-","a","a","a","a","-","a","a","a","a","-","a","a","b","0">>
CodeLong == CodeB0 \o <<"X">>
CodeOtherHost == <<"h","t","t","p","s",":","/","/","e","x","a","m","p","l","e",".","c","o","m","/","v","e","r","i","f","y","?","r","c","p","t","=","A","B","1","2">>
CodeSpace == <<"h","t","t","p","s",":","/","/","e","v","a","t",".","g","r","a",".","g","o","v",".","g","h","/","v","e","r","i","f","y","?">> \o <<"r","c","p","t","=","A"," ","B">>
CodePlus == <<"h","t","t","p","s",":","/","/","e","v","a","t",".","g","r","a",".","g","o","v",".","g","h","/","v","e","r","i","f","y","?">> \o <<"r","c","p","t","=","A","+","B">>
CodeFragment == <<"h","t","t","p","s",":","/","/","e","v","a","t",".","g","r","a",".","g","o","v",".","g","h","/","v","e","r","i","f","y","?">> \o <<"s","d","c","=","S","1","#","r","c","p","t","=","A","B","1","2">>
ParseInputs ==
    {BuildURL(prefix, params) : prefix \in SignedPrefixes, params \in ParamLists}
    \cup {CodeB0, EarlierCode(1), CodeLower, CodeLong, CodeBad, CodeOtherHost,
          CodeSpace, CodePlus, CodeFragment, <<>>}

\* QRParser.parse and QRParser.getUniqueId applied to a decoded string, as
\* App.handleScan applies them
Parse ==
    /\ last = NoCall
    /\ \E raw \in ParseInputs :
          LET parsed == parse(raw)
          IN  last' = [kind |-> "parse", raw |-> raw, parsed |-> parsed,
                       uniqueId |-> getUniqueId(parsed)]
    /\ UNCHANGED <<scanner, camera, page, demoMode, app, now, localStorage, execs, inflight, refused, calls, ticks>>

NextFunctions ==
    \/ Draw
    \/ Mask
    \/ Parse

SpecFunctions == InitFunctions /\ [][NextFunctions]_vars

\* The share of the first i tiers of a table
RECURSIVE CumulativeShare(_, _)
CumulativeShare(prizes, i) ==
    IF i = 0 THEN 0 ELSE CumulativeShare(prizes, i - 1) + prizes[i].percentage

\* The tier the draw is to select: the first whose cumulative share exceeds
\* r2, and the first configured one when there is none
ReferenceTier(prizes, r2) ==
    LET over == {i \in DOMAIN prizes : CumulativeShare(prizes, i) > r2}
    IN  IF over = {} THEN prizes[1].prize
        ELSE prizes[CHOOSE i \in over : \A j \in over : i <= j].prize

\* C11: for all draws r, r2 and every prize table the outcome is WIN exactly
\* when r < winPercentage (never at 0, always at 100); on a WIN the tier is
\* the first, in insertion order, whose cumulative share exceeds r2, and the
\* first configured tier when no cumulative share does.
C11_DrawEqualsReference ==
    last.kind = "draw" =>
        /\ (last.result = "WIN") <=> (last.random < last.winPercentage)
        /\ last.result \in {"WIN", "LOSE"}
        /\ last.winPercentage = 0 => last.result = "LOSE"
        /\ last.winPercentage = 100 => last.result = "WIN"
        /\ last.result = "WIN" => last.prize = ReferenceTier(last.prizes, last.random2)
        /\ (last.result = "WIN" /\ last.prizes = PRIZES) =>
              last.prize = (IF last.random2 < 70 THEN CediFive
                            ELSE IF last.random2 < 95 THEN CediTen ELSE CediFifty)

\* C11's case: a WIN under shares summing to 60 with a draw past them, which
\* got the first configured tier.
C11_DefaultTierReturned ==
    /\ last.kind = "draw"
    /\ last.result = "WIN"
    /\ CumulativeShare(last.prizes, Len(last.prizes)) <= last.random2
    /\ last.prize = last.prizes[1].prize

\* C15: for every participant id that can appear in the audit log or the
\* leaderboard (a number of the registration format) the masked form is the
\* first 3 characters, '****' and the last 3 characters; it is never the full
\* id, and nothing of the middle shows: ids that differ in the middle only
\* have the same masked form.
C15_MaskHidesMiddle ==
    (last.kind = "mask" /\ phoneRegex_test(last.phone)) =>
        /\ last.masked = SubSeq(last.phone, 1, 3) \o <<"*", "*", "*", "*">>
                         \o SubSeq(last.phone, Len(last.phone) - 2, Len(last.phone))
        /\ last.masked # last.phone
        /\ \A other \in MaskInputs :
              (/\ phoneRegex_test(other)
               /\ SubSeq(other, 1, 3) = SubSeq(last.phone, 1, 3)
               /\ SubSeq(other, 8, 10) = SubSeq(last.phone, 8, 10))
                  => _maskPhone(other) = last.masked
        /\ last.phone = PhoneA =>
              last.masked = <<"0","2","4","*","*","*","*","5","6","7">>

\* C15's case: 0241234567 was masked and became 024****567.
C15_ExampleMasked ==
    /\ last.kind = "mask"
    /\ last.phone = PhoneA
    /\ last.masked = <<"0","2","4","*","*","*","*","5","6","7">>

\* C16: for every raw string parse reports valid=true if and only if exactly
\* one uniqueId can be derived: getUniqueId gives a non-null identifier for
\* every result with valid=true, and a string matching neither grammar gets
\* valid=false and no identifier.
C16_ValidIffUniqueId ==
    last.kind = "parse" =>
        /\ last.parsed.valid <=> (last.uniqueId # Null)
        /\ (~isV1Format(last.raw) /\ ~isV2Format(last.raw)) =>
              (~last.parsed.valid /\ last.uniqueId = Null)

\* The ASCII URL code points of the URL Standard: what a valid URL string is
\* written with, beside percent-encoded bytes
URLCodePoints ==
    Range(DigitChars) \cup Range(UpperChars) \cup Range(LowerChars)
    \cup {"!", "$", "&", "'", "(", ")", "*", "+", ",", "-", ".", "/", ":", ";",
          "=", "?", "@", "_", "~"}

\* A string written with URL code points only, a '#' before its fragment apart
WellFormedURL(s) == \A i \in DOMAIN s : s[i] \in URLCodePoints \cup {"#"}

\* C17: a string that matches the signed-URL scheme and host prefix but is not
\* a well-formed URL is parsed as non-valid (valid=false), so that handleScan
\* ends in the invalid-receipt message and getUniqueId is not reached.
C17_MalformedURLNotValid ==
    (last.kind = "parse" /\ isV2Format(last.raw) /\ ~WellFormedURL(last.raw)) =>
        ~last.parsed.valid

\* The value of the first rcpt parameter of a list, Null if there is none
RECURSIVE FirstRcpt(_)
FirstRcpt(params) ==
    IF params = <<>> THEN Null
    ELSE IF Head(params)[1] = ParamRcpt[1] THEN Head(params)[2]
    ELSE FirstRcpt(Tail(params))

\* C18: every string of the simple-token grammar parses as v1, valid, with
\* the whole token as uniqueId; every well-formed signed URL that carries an
\* rcpt parameter parses as v2, valid, with the rcpt value as uniqueId,
\* whatever its other parameters are; no string is taken for both.
C18_UniqueIdByVariant ==
    last.kind = "parse" =>
        /\ QR_PATTERN_test(last.raw) =>
              /\ last.parsed.version = "v1"
              /\ last.parsed.valid
              /\ last.uniqueId = last.raw
        /\ \A prefix \in SignedPrefixes, params \in ParamLists :
              (last.raw = BuildURL(prefix, params) /\ FirstRcpt(params) # Null) =>
                  /\ last.parsed.version = "v2"
                  /\ last.parsed.valid
                  /\ last.uniqueId = FirstRcpt(params)

\* C18's case: a signed URL with sdc before rcpt was parsed as v2 and gave
\* the rcpt value.
C18_RcptAmongOthers ==
    /\ last.kind = "parse"
    /\ \E prefix \in SignedPrefixes :
          last.raw = BuildURL(prefix, <<ParamSdc, ParamRcpt>>)
    /\ last.parsed.version = "v2"
    /\ last.uniqueId = ParamRcpt[2]

(***************************************************************************)
(* The App on one page, in demo mode: registration, logout and the reset   *)
(* of the demo data, next to the API's submitScan.                         *)
(***************************************************************************)
\* localStorage as a registered participant's earlier session left it: PhoneA
\* with one LOSE and one WIN recorded at minute 0
ReturningSession ==
    LET lose == _demoScan(EarlierCode(1), PhoneA, toISOString(0), EmptyStorage,
                          0, WIN_PERCENTAGE, 0, SeedC1).storage
        win == _demoScan(EarlierCode(2), PhoneA, toISOString(0), lose,
                         0, WIN_PERCENTAGE - 1, 95, SeedC1).storage
    IN  [win EXCEPT !.evat_phone = PhoneA]

InitApp ==
    /\ demoMode = TRUE
    /\ now = 0
    /\ localStorage \in {EmptyStorage, ReturningSession}
    /\ app = AppInit(localStorage)
    /\ scanner = ScannerInit
    /\ camera = CameraInit
    /\ page = PageInit
    /\ execs = {}
    /\ inflight = <<>>
    /\ last = NoCall
    /\ refused = [p \in Phones |-> -1]
    /\ calls = 0
    /\ ticks = 0

\* App.register
Register ==
    /\ \E phone \in RegisterInputs :
          IF ~phoneRegex_test(phone)
          THEN /\ last' = [kind |-> "register", phone |-> phone, returned |-> FALSE]
               /\ UNCHANGED <<app, localStorage>>
          ELSE /\ app' = [app EXCEPT !.userPhone = phone, !.isRegistered = TRUE]
               /\ localStorage' = [localStorage EXCEPT !.evat_phone = phone]
               /\ last' = [kind |-> "register", phone |-> phone, returned |-> TRUE]
    /\ UNCHANGED <<scanner, camera, page, demoMode, now, inflight, execs, refused, calls, ticks>>

\* App.resetDemoData, with the answer given to confirm(...)
ResetDemoData ==
    /\ \E confirmed \in BOOLEAN :
          /\ last' = [kind |-> "reset", confirmed |-> confirmed,
                      wasRegistered |-> app.isRegistered,
                      entries |-> Len(_getScanHistory(localStorage))]
          /\ IF confirmed
             THEN /\ localStorage' = clearDemoData(localStorage)
                  /\ app' = [app EXCEPT !.userPhone = Null, !.isRegistered = FALSE,
                                        !.totalScans = 0, !.totalWins = 0]
             ELSE UNCHANGED <<app, localStorage>>
    /\ UNCHANGED <<scanner, camera, page, demoMode, now, inflight, execs, refused, calls, ticks>>

\* A variant of Logout with one change: the scan history is removed with the
\* phone.
LogoutRemovesHistory ==
    /\ localStorage' = [localStorage EXCEPT !.evat_phone = Null,
                                            !.evat_scan_history = <<>>]
    /\ app' = AppInit(localStorage')
    /\ last' = [kind |-> "logout"]
    /\ UNCHANGED <<scanner, camera, page, demoMode, now, inflight, execs, refused, calls, ticks>>

\* App.logout: the phone is removed and index.html is loaded, where App.init
\* runs on what localStorage holds
Logout ==
    /\ localStorage' = [localStorage EXCEPT !.evat_phone = Null]
    /\ app' = AppInit(localStorage')
    /\ last' = [kind |-> "logout"]
    /\ UNCHANGED <<scanner, camera, page, demoMode, now, inflight, execs, refused, calls, ticks>>

\* submitScan on the page, DEMO_MODE set, for one receipt
SubmitScanOnPage ==
    /\ calls < MaxCalls
    /\ \E phone \in Phones : LocalScan(CodeB0, phone, toISOString(now))
    /\ calls' = calls + 1
    /\ UNCHANGED <<scanner, camera, page, demoMode, app, now, inflight, ticks>>

\* App.loadLeaderboard: getLeaderboard for the App's participant
LoadLeaderboard ==
    /\ calls < MaxCalls
    /\ calls' = calls + 1
    /\ \E period \in {"weekly", "all-time"} :
          /\ last' = [kind |-> "leaderboard", via |-> "local",
                      phone |-> app.userPhone, period |-> period,
                      response |-> _demoLeaderboard(app.userPhone, period, localStorage)]
          /\ localStorage' = _demoLeaderboardStorage(app.userPhone, period, localStorage)
    /\ UNCHANGED <<scanner, camera, page, demoMode, app, now, execs, inflight, refused, ticks>>

NextApp ==
    \/ Register
    \/ ResetDemoData
    \/ Logout
    \/ SubmitScanOnPage
    \/ LoadLeaderboard
    \/ GetAuditLog

SpecApp == InitApp /\ [][NextApp]_vars

\* history is how earlier began
IsPrefix(earlier, history) ==
    /\ Len(earlier) <= Len(history)
    /\ SubSeq(history, 1, Len(earlier)) = earlier

\* C25: redemption entries are immutable and persistent: an entry recorded
\* stays in the ledger, at its place and with its receipt, participant,
\* timestamp, outcome and prize, in every later state until the reset runs;
\* submitScan, getLeaderboard, getAuditLog, register and logout remove,
\* reorder and modify no entry.
C25_EntriesStayUntilReset ==
    [][(last'.kind = "reset" /\ last'.confirmed) \/ IsPrefix(History, History')]_vars

\* The participant logged out after a third redemption was recorded.
C25_LoggedOutAfterScan ==
    /\ last.kind = "logout"
    /\ Len(History) = 3

\* The national format: ten digits, the first 0, the second 2, 3 or 5
NationalFormat(phone) ==
    /\ Len(phone) = 10
    /\ \A i \in DOMAIN phone : phone[i] \in Range(DigitChars)
    /\ Head(phone) = "0"
    /\ Head(Tail(phone)) \in {"2", "3", "5"}

\* C27: registration accepts exactly the phone numbers of the national
\* format: register with any other string returns false and leaves userPhone,
\* isRegistered and the stored phone unchanged; register with a matching
\* string returns true and sets all three; and in every state reached through
\* init, register, logout and resetDemoData, isRegistered is true iff
\* userPhone is non-null.
C27_RegistrationByFormat ==
    /\ [](app.isRegistered <=> app.userPhone # Null)
    /\ [][last'.kind = "register" =>
             IF NationalFormat(last'.phone)
             THEN /\ last'.returned
                  /\ app'.userPhone = last'.phone
                  /\ app'.isRegistered
                  /\ localStorage'.evat_phone = last'.phone
             ELSE /\ ~last'.returned
                  /\ app'.userPhone = app.userPhone
                  /\ app'.isRegistered = app.isRegistered
                  /\ localStorage'.evat_phone = localStorage.evat_phone]_vars

\* A registered participant typed a number with the second digit 7 and was
\* refused.
C27_RefusedWhileRegistered ==
    /\ last.kind = "register"
    /\ last.phone = PhoneOther
    /\ ~last.returned
    /\ app.isRegistered /\ app.userPhone = PhoneB

ResetDone == last.kind = "reset" /\ last.confirmed

\* C12: after the reset the ledger and the participant set are empty: nothing
\* counts as redeemed and a receipt redeemed before can be redeemed again,
\* every participant's totals are 0, the audit log has no entry and no
\* winner, and no participant is registered in the App.
C12_ResetEmptiesEverything ==
    ResetDone =>
        /\ localStorage.evat_scan_history = <<>>
        /\ localStorage.scanned_codes = <<>>
        /\ localStorage.evat_audit_log = <<>>
        /\ localStorage.evat_leaderboard = <<>>
        /\ localStorage.evat_phone = Null
        /\ \A e \in execs :
              _demoScan(e.qrCode, e.phone, toISOString(now), localStorage, now,
                        WIN_PERCENTAGE, 0, SeedC1).response.success
        /\ \A phone \in RegisterInputs :
              _getUserStats(phone, localStorage) = [totalScans |-> 0, totalWins |-> 0]
        /\ _demoAuditLog(localStorage).entries = <<>>
        /\ _demoAuditLog(localStorage).total_winners = 0
        /\ app.userPhone = Null
        /\ ~app.isRegistered
        /\ app.totalScans = 0 /\ app.totalWins = 0

\* C12's case: the reset ran for a registered participant on a ledger that
\* held entries, a WIN among the redemptions made before it.
C12_ResetAfterWin ==
    /\ ResetDone
    /\ last.wasRegistered
    /\ last.entries > 0
    /\ \E e \in execs : e.result = "WIN"

(***************************************************************************)
(* The leaderboard: getLeaderboard called on what earlier sessions left in *)
(* localStorage.                                                           *)
(***************************************************************************)
\* The participants and receipts of a crowded session
CrowdSize == 12
CrowdPhone(n) == <<"0","2","4","0","0","0","0","0">> \o TwoDigits(n)
CrowdCode(n) == SubSeq(CodeB0, 1, 25) \o TwoDigits(n)

\* n participants with one LOSE each, recorded at minute 0 in the order of
\* their numbers
RECURSIVE CrowdSession(_)
CrowdSession(n) ==
    IF n = 0 THEN EmptyStorage
    ELSE _demoScan(CrowdCode(n), CrowdPhone(n), toISOString(0), CrowdSession(n - 1),
                   0, WIN_PERCENTAGE, 0, SeedC1).storage

\* The crowded session after the third and the seventh participant redeemed
\* a second receipt, the seventh first
BusySession ==
    LET seventh == _demoScan(CrowdCode(CrowdSize + 1), CrowdPhone(7), toISOString(0),
                             CrowdSession(CrowdSize), 0, WIN_PERCENTAGE, 0, SeedC1).storage
    IN  _demoScan(CrowdCode(CrowdSize + 2), CrowdPhone(3), toISOString(0),
                  seventh, 0, WIN_PERCENTAGE - 1, 0, SeedC1).storage

BoardLedgers == {EmptyStorage, ReturningSession, CrowdSession(5), BusySession}
BoardCallers == {PhoneA, PhoneB, CrowdPhone(3), CrowdPhone(CrowdSize), Null}
Periods == {"weekly", "all-time"}

\* The page is opened at once or two weeks after the sessions
BoardTimes == {0, 14 * ONE_DAY}

InitBoard ==
    /\ demoMode \in BOOLEAN
    /\ now \in BoardTimes
    /\ localStorage \in BoardLedgers
    /\ app = AppInit(localStorage)
    /\ scanner = ScannerInit
    /\ camera = CameraInit
    /\ page = PageInit
    /\ execs = {}
    /\ inflight = <<>>
    /\ last = NoCall
    /\ refused = [p \in Phones |-> -1]
    /\ calls = 0
    /\ ticks = 0

\* getLeaderboard: _demoLeaderboard in demo mode and when the backend fails
GetLeaderboard ==
    /\ calls < MaxCalls
    /\ calls' = calls + 1
    /\ \E phone \in BoardCallers, period \in Periods :
       \E backendAnswers \in (IF demoMode THEN {FALSE} ELSE BOOLEAN) :
          IF backendAnswers
          THEN /\ last' = [kind |-> "leaderboard", via |-> "remote",
                           phone |-> phone, period |-> period]
               /\ UNCHANGED localStorage
          ELSE /\ last' = [kind |-> "leaderboard", via |-> "local",
                           phone |-> phone, period |-> period,
                           response |-> _demoLeaderboard(phone, period, localStorage)]
               /\ localStorage' = _demoLeaderboardStorage(phone, period, localStorage)
    /\ UNCHANGED <<scanner, camera, page, demoMode, app, now, execs, inflight, refused, ticks>>

NextBoard ==
    \/ GetLeaderboard
    \/ GetAuditLog

SpecBoard == InitBoard /\ [][NextBoard]_vars

LocalBoardDone == last.kind = "leaderboard" /\ last.via = "local"

\* Where the caller is to stand in the full sorted list: behind every row
\* with more scans and every earlier row with the same scans; 0 when the
\* caller has no row
ExpectedRank(before, phone) ==
    LET pos == FindUser(before, phone)
    IN  IF pos = 0 THEN 0
        ELSE 1 + Cardinality({k \in DOMAIN before :
                                 \/ before[k].scans > before[pos].scans
                                 \/ before[k].scans = before[pos].scans /\ k < pos})

\* C19: getLeaderboard returns at most 10 rows, ordered by scans descending,
\* with ranks 1, 2, ..., n in list order (the counts 45, 38, 32, 28, 22 get
\* the ranks 1 to 5); rows with equal scans keep their insertion order; and
\* user_rank is the caller's 1-based position in the full sorted list, or
\* null (written 0) when the caller is not in it.
C19_RankedByScans ==
    LocalBoardDone =>
        LET rows == last.response.leaderboard
            before == LeaderboardBeforeSort(last.phone, localStorage)
        IN  /\ Len(rows) <= 10
            /\ Len(rows) = Min(Len(before), 10)
            /\ \A i \in DOMAIN rows :
                  /\ rows[i].rank = i
                  /\ FindUser(before, rows[i].phone) # 0
                  /\ before[FindUser(before, rows[i].phone)].scans = rows[i].scans
                  /\ ExpectedRank(before, rows[i].phone) = i
            /\ \A i, j \in DOMAIN rows :
                  i < j =>
                     /\ rows[i].scans >= rows[j].scans
                     /\ rows[i].scans = rows[j].scans =>
                           FindUser(before, rows[i].phone) < FindUser(before, rows[j].phone)
            /\ last.response.user_rank = ExpectedRank(before, last.phone)
            /\ (localStorage = EmptyStorage /\ last.phone = PhoneB) =>
                  /\ [i \in DOMAIN rows |-> rows[i].scans] = <<45, 38, 32, 28, 22>>
                  /\ last.response.user_rank = 0

\* C19's case: of the crowd's participants ten rows are returned, the third
\* and the seventh on top with two scans each in the order of their stored
\* rows, and the caller, the last of the crowd, is ranked behind every
\* other row with one scan.
C19_TenOfTwelve ==
    /\ LocalBoardDone
    /\ localStorage = BusySession
    /\ last.phone = CrowdPhone(CrowdSize)
    /\ Len(last.response.leaderboard) = 10
    /\ last.response.leaderboard[1].phone = CrowdPhone(3)
    /\ last.response.leaderboard[2].phone = CrowdPhone(7)
    /\ last.response.leaderboard[3].phone = CrowdPhone(1)
    /\ last.response.user_rank = CrowdSize

\* The entries of a participant that are less than seven days old
RECURSIVE WeeklyCount(_, _, _)
WeeklyCount(history, phone, dateNow) ==
    IF history = <<>> THEN 0
    ELSE WeeklyCount(Tail(history), phone, dateNow)
         + (IF /\ Head(history).phone = phone
               /\ parseDate(Head(history).timestamp) > dateNow - 7 * ONE_DAY
            THEN 1 ELSE 0)

\* C20: for the period 'weekly' the leaderboard counts for a participant only
\* the entries whose timestamp lies inside the weekly window, and for
\* 'all-time' all entries: a participant whose only scans are older than the
\* window has weekly scans 0 and positive all-time scans.
C20_WeeklyCountsTheWindow ==
    LocalBoardDone =>
        LET rows == last.response.leaderboard
            counted == IF last.period = "weekly"
                       THEN WeeklyCount(History, last.phone, now)
                       ELSE LedgerCount(History, last.phone, FALSE)
        IN  /\ last.response.user_scans = counted
            /\ \A i \in DOMAIN rows :
                  (rows[i].phone = last.phone /\ LedgerCount(History, last.phone, FALSE) > 0) =>
                      rows[i].scans = counted

\* The four lists the API keeps in localStorage
ApiLists(st) ==
    <<st.evat_scan_history, st.scanned_codes, st.evat_audit_log, st.evat_leaderboard>>

\* A step that is a call of getLeaderboard or getAuditLog
ReadStep ==
    /\ calls' = calls + 1
    /\ last'.kind \in {"leaderboard", "audit"}

\* The call of this step is the call before it again, both answered by the
\* local simulation
SameReadAgain ==
    /\ last.kind = last'.kind
    /\ last.via = "local" /\ last'.via = "local"
    /\ last.kind = "leaderboard" =>
          last.phone = last'.phone /\ last.period = last'.period

\* C21: getLeaderboard and getAuditLog are read-only: a call of either, for
\* any participant and period, leaves the persisted scan history, the
\* scanned-code list, the audit log and the stored leaderboard aggregates
\* exactly as they were, and two consecutive calls with no submitScan in
\* between return equal results.
C21_ReadsChangeNothing ==
    [][ReadStep =>
          /\ ApiLists(localStorage') = ApiLists(localStorage)
          /\ SameReadAgain => last'.response = last.response]_vars

\* The leaderboard has been asked for twice or more over a ledger of twelve
\* participants, the last time by one of them for the week.
C21_BoardReadTwice ==
    /\ calls >= 2
    /\ LocalBoardDone
    /\ last.phone = CrowdPhone(3) /\ last.period = "weekly"
    /\ localStorage = BusySession

\* C23: the leaderboard is derived from ledger history only: in every
\* reachable state, every row getLeaderboard returns belongs to a participant
\* that has redemption entries in the ledger, and the row's scans and wins
\* equal the numbers of that participant's ledger entries and WIN entries; an
\* empty ledger gives an empty leaderboard.
C23_RowsFromLedgerOnly ==
    LocalBoardDone =>
        LET rows == last.response.leaderboard
        IN  /\ \A i \in DOMAIN rows :
                  /\ LedgerCount(History, rows[i].phone, FALSE) > 0
                  /\ rows[i].scans = LedgerCount(History, rows[i].phone, FALSE)
                  /\ rows[i].wins = LedgerCount(History, rows[i].phone, TRUE)
            /\ History = <<>> => rows = <<>>

(***************************************************************************)
(* The backend configured: every call awaits fetch, and falls back          *)
(***************************************************************************)
InitFallback ==
    /\ demoMode = FALSE
    /\ now = 0
    /\ localStorage \in {EmptyStorage, ReturningSession}
    /\ app = AppInit(localStorage)
    /\ scanner = ScannerInit
    /\ camera = CameraInit
    /\ page = PageInit
    /\ execs = {}
    /\ inflight = <<>>
    /\ last = NoCall
    /\ refused = [p \in Phones |-> -1]
    /\ calls = 0
    /\ ticks = 0

NextFallback ==
    \/ SubmitScanFetch
    \/ FetchOk
    \/ FetchFailed
    \/ GetLeaderboard
    \/ GetAuditLog
    \/ Tick

SpecFallback == InitFallback /\ [][NextFallback]_vars

\* A step in which a submitScan call that awaited the backend returns a
\* result of the local simulation
ScanFallsBack ==
    /\ ~demoMode
    /\ Len(inflight') < Len(inflight)
    /\ last'.kind = "scan" /\ last'.via = "local"

\* A step in which getLeaderboard or getAuditLog returns a local result
\* with the backend configured
ReadFallsBack ==
    /\ ~demoMode
    /\ ReadStep
    /\ last'.via = "local"

\* C26: with the backend configured, when the scan request throws or the
\* answer is not OK, submitScan does not fail: it resolves with the result of
\* the local simulation run on the local ledger, with the timestamp taken
\* when submitScan was entered; getLeaderboard and getAuditLog fall back to
\* their local versions in the same way.
C26_FallbackIsLocalSimulation ==
    [][/\ ScanFallsBack =>
            \E i \in DOMAIN inflight :
               LET call == inflight[i]
                   r == last'.response
               IN  /\ inflight' = RemoveAt(inflight, i)
                   /\ last'.qrCode = call.qrCode /\ last'.phone = call.phone
                   /\ IF r.success
                      THEN /\ History' = Append(History,
                                             [qrCode |-> call.qrCode, phone |-> call.phone,
                                              timestamp |-> call.timestamp,
                                              result |-> r.result, prize |-> r.prize])
                           /\ r.total_scans = LedgerCount(History', call.phone, FALSE)
                      ELSE /\ localStorage' = localStorage
                           /\ r.error \in {"Invalid QR code format", "Duplicate scan",
                                            "Rate limited"}
       /\ ReadFallsBack =>
            /\ localStorage' = localStorage
            /\ last'.kind = "audit" =>
                  last'.response.total_winners = Len(WinsOf(History))
            /\ last'.kind = "leaderboard" =>
                  last'.response.user_scans = LedgerCount(History, last'.phone, FALSE)]_vars

\* The backend failed half an hour or more after submitScan was entered, and
\* the redemption was recorded with the time of entry.
C26_FellBackLater ==
    /\ ~demoMode
    /\ LocalScanDone
    /\ last.response.success
    /\ last.timestamp # toISOString(last.at)
    /\ History[Len(History)].timestamp = last.timestamp

(***************************************************************************)
(* The scanner page: Scanner, the Html5Qrcode objects and App.handleScan   *)
(***************************************************************************)
MaxObjects == 2
MaxAwaiting == 2

\* What the camera shows the scanner: a receipt code, a receipt URL that
\* _demoScan's pattern refuses, and a text that is no receipt
ScanCodes == {CodeB0, CodeURL, CodeBad}

\* html5QrCode.start(...) is invoked on an object: a call awaits it, and an
\* object not started begins to start
InvokeStart(cam, object, call) ==
    IF cam.objects[object] = "NOT_STARTED"
    THEN [cam EXCEPT !.objects[object] = "STARTING",
                     !.awaiting = Append(@, [call |-> call, object |-> object,
                                             busy |-> FALSE])]
    ELSE [cam EXCEPT !.startedBusy = TRUE,
                     !.awaiting = Append(@, [call |-> call, object |-> object,
                                             busy |-> TRUE])]

\* html5QrCode.stop() is invoked on an object: a running camera begins to
\* stop and the call awaits it; on any other object the promise is rejected
\* and stop returns false
InvokeStop(cam, object) ==
    IF cam.objects[object] \in {"SCANNING", "PAUSED"}
    THEN [cam EXCEPT !.objects[object] = "STOPPING",
                     !.awaiting = Append(@, [call |-> "stop", object |-> object,
                                             busy |-> FALSE])]
    ELSE cam

\* Scanner.pause(): html5QrCode.pause(true) while isScanning
PauseScanner(cam, sc) ==
    IF sc.isScanning /\ sc.html5QrCode # 0
    THEN IF cam.objects[sc.html5QrCode] = "SCANNING"
         THEN [cam EXCEPT !.objects[sc.html5QrCode] = "PAUSED"]
         ELSE cam
    ELSE cam

\* Scanner.resume(): html5QrCode.resume() when html5QrCode is not null
ResumeScanner(cam, sc) ==
    IF sc.html5QrCode # 0
    THEN IF cam.objects[sc.html5QrCode] = "PAUSED"
         THEN [cam EXCEPT !.objects[sc.html5QrCode] = "SCANNING"]
         ELSE cam
    ELSE cam

\* if (Scanner.isScanning) Scanner.resume()
ResumeIfScanning(cam, sc) ==
    IF sc.isScanning THEN ResumeScanner(cam, sc) ELSE cam

\* The page is opened by a registered participant, with or without earlier
\* redemptions
InitScannerPage ==
    /\ demoMode = TRUE
    /\ now = 0
    /\ localStorage \in {[EmptyStorage EXCEPT !.evat_phone = PhoneA], ReturningSession}
    /\ app = AppInit(localStorage)
    /\ scanner = ScannerInit
    /\ camera = CameraInit
    /\ page = PageInit
    /\ execs = {}
    /\ inflight = <<>>
    /\ last = NoCall
    /\ refused = [p \in Phones |-> -1]
    /\ calls = 0
    /\ ticks = 0

\* Scanner.init: a new Html5Qrcode object replaces the one held
ScannerInitCalled ==
    /\ Len(camera.objects) < MaxObjects
    /\ camera' = [camera EXCEPT !.objects = Append(@, "NOT_STARTED")]
    /\ scanner' = [scanner EXCEPT !.html5QrCode = Len(camera.objects) + 1,
                                  !.onScanCallback = TRUE]
    /\ UNCHANGED <<page, demoMode, app, now, localStorage, last, execs, inflight, refused, calls, ticks>>

\* Scanner.start up to its first await: true at once when isScanning; with
\* html5QrCode null both tries throw and false is returned
ScannerStart ==
    /\ Len(camera.awaiting) < MaxAwaiting
    /\ camera' = IF scanner.isScanning \/ scanner.html5QrCode = 0
                 THEN camera
                 ELSE InvokeStart(camera, scanner.html5QrCode, "start")
    /\ UNCHANGED <<scanner, page, demoMode, app, now, localStorage, last, execs, inflight, refused, calls, ticks>>

\* The promise of html5QrCode.start settles and Scanner.start goes on: resolved,
\* isScanning is set; rejected, the first try invokes start again for the
\* user-facing camera and the second returns false.  What an object does with
\* a start invoked while it was busy is the library's: either outcome.
StartSettles ==
    /\ \E k \in DOMAIN camera.awaiting, resolved \in BOOLEAN :
          LET call == camera.awaiting[k]
              cam == [camera EXCEPT
                         !.awaiting = RemoveAt(@, k),
                         !.objects[call.object] =
                             IF call.busy THEN @
                             ELSE IF resolved THEN "SCANNING" ELSE "NOT_STARTED"]
          IN  /\ call.call \in {"start", "fallback"}
              /\ IF resolved
                 THEN /\ scanner' = [scanner EXCEPT !.isScanning = TRUE]
                      /\ camera' = cam
                 ELSE /\ UNCHANGED scanner
                      /\ camera' = IF call.call = "start" /\ scanner.html5QrCode # 0
                                   THEN InvokeStart(cam, scanner.html5QrCode, "fallback")
                                   ELSE cam
    /\ UNCHANGED <<page, demoMode, app, now, localStorage, last, execs, inflight, refused, calls, ticks>>

\* Scanner.stop up to its await: true at once when not isScanning; with
\* html5QrCode null the try throws and false is returned
ScannerStop ==
    /\ camera' = IF ~scanner.isScanning \/ scanner.html5QrCode = 0
                 THEN camera
                 ELSE InvokeStop(camera, scanner.html5QrCode)
    /\ UNCHANGED <<scanner, page, demoMode, app, now, localStorage, last, execs, inflight, refused, calls, ticks>>

\* The promise of html5QrCode.stop resolves and Scanner.stop goes on
StopSettles ==
    /\ \E k \in DOMAIN camera.awaiting :
          /\ camera.awaiting[k].call = "stop"
          /\ camera' = [camera EXCEPT
                           !.awaiting = RemoveAt(@, k),
                           !.objects[camera.awaiting[k].object] = "NOT_STARTED"]
    /\ scanner' = [scanner EXCEPT !.isScanning = FALSE]
    /\ UNCHANGED <<page, demoMode, app, now, localStorage, last, execs, inflight, refused, calls, ticks>>

\* Scanner.destroy: stop() is called and not awaited, then the fields are reset
ScannerDestroy ==
    /\ camera' = IF scanner.html5QrCode # 0 /\ scanner.isScanning
                 THEN InvokeStop(camera, scanner.html5QrCode)
                 ELSE camera
    /\ scanner' = [html5QrCode |-> 0, isScanning |-> FALSE, onScanCallback |-> FALSE]
    /\ UNCHANGED <<page, demoMode, app, now, localStorage, last, execs, inflight, refused, calls, ticks>>

\* Date.now() - lastScanTime < 5000: the clock of the model counts minutes,
\* so a repeat in the minute of the last scan is within 5 seconds or is not
Within5Seconds == IF now = app.lastScanTime THEN BOOLEAN ELSE {FALSE}

\* A running object decodes a code: Scanner._onScanSuccess pauses and calls
\* the callback, App.handleScan.  In demo mode submitScan is settled when
\* handleScan awaits it, so handleScan ends before any other event is handled.
OnScanSuccess ==
    /\ \E object \in DOMAIN camera.objects : camera.objects[object] = "SCANNING"
    /\ \E qrCode \in ScanCodes, within \in Within5Seconds :
          LET paused == PauseScanner(camera, scanner)
              parsed == parse(qrCode)
              uniqueId == getUniqueId(parsed)
          IN  IF ~scanner.onScanCallback
              THEN /\ camera' = paused
                   /\ UNCHANGED <<page, app, localStorage, calls>>
              ELSE IF ~app.isRegistered
              THEN /\ camera' = paused
                   /\ page' = [page EXCEPT !.path = "notRegistered"]
                   /\ UNCHANGED <<app, localStorage, calls>>
              ELSE IF ~parsed.valid
              THEN /\ camera' = ResumeIfScanning(paused, scanner)
                   /\ page' = [page EXCEPT !.path = "invalid"]
                   /\ UNCHANGED <<app, localStorage, calls>>
              ELSE IF uniqueId = app.lastScannedCode /\ within
              THEN /\ camera' = paused
                   /\ page' = [page EXCEPT !.path = "repeat"]
                   /\ UNCHANGED <<app, localStorage, calls>>
              ELSE /\ calls < MaxCalls
                   /\ calls' = calls + 1
                   /\ \E random \in RandomDraws :
                         LET result == _demoScan(qrCode, app.userPhone, toISOString(now),
                                                 localStorage, now, random,
                                                 70, SeedC1)
                         IN  /\ localStorage' = result.storage
                             /\ IF result.response.success
                                THEN /\ app' = [app EXCEPT
                                                  !.lastScannedCode = uniqueId,
                                                  !.lastScanTime = now,
                                                  !.totalScans = result.response.total_scans,
                                                  !.totalWins = result.response.total_wins]
                                     /\ page' = [page EXCEPT
                                                   !.modal = TRUE,
                                                   !.path = IF result.response.result = "WIN"
                                                            THEN "win" ELSE "lose"]
                                     /\ camera' = paused
                                ELSE /\ app' = [app EXCEPT !.lastScannedCode = uniqueId,
                                                           !.lastScanTime = now]
                                     /\ page' = [page EXCEPT !.path = "failed"]
                                     /\ camera' = ResumeIfScanning(paused, scanner)
    /\ UNCHANGED <<scanner, demoMode, now, last, execs, inflight, refused, ticks>>

\* The button of the result modal: App.closeModal
CloseModal ==
    /\ page.modal
    /\ page' = [page EXCEPT !.modal = FALSE,
                            !.timers = IF scanner.isScanning THEN @ + 1 ELSE @]
    /\ UNCHANGED <<scanner, camera, demoMode, app, now, localStorage, last, execs, inflight, refused, calls, ticks>>

\* 300 ms after closeModal: Scanner.resume()
ResumeTimer ==
    /\ page.timers > 0
    /\ page' = [page EXCEPT !.timers = @ - 1]
    /\ camera' = ResumeScanner(camera, scanner)
    /\ UNCHANGED <<scanner, demoMode, app, now, localStorage, last, execs, inflight, refused, calls, ticks>>

\* App._initScannerPage for a registered participant: Scanner.init, then
\* Scanner.start up to its await
_initScannerPage ==
    /\ app.isRegistered
    /\ camera.objects = <<>>
    /\ scanner' = [scanner EXCEPT !.html5QrCode = 1, !.onScanCallback = TRUE]
    /\ camera' = InvokeStart([camera EXCEPT !.objects = <<"NOT_STARTED">>], 1, "start")
    /\ UNCHANGED <<page, demoMode, app, now, localStorage, last, execs, inflight, refused, calls, ticks>>

\* Scanner under any calls of init, start, stop and destroy
NextScanner ==
    \/ ScannerInitCalled
    \/ ScannerStart
    \/ StartSettles
    \/ ScannerStop
    \/ StopSettles
    \/ ScannerDestroy

SpecScanner == InitScannerPage /\ [][NextScanner]_vars

\* The scanner page in use: the App calls Scanner.init and Scanner.start when
\* the page is opened, and neither Scanner.stop nor Scanner.destroy
NextScanPage ==
    \/ _initScannerPage
    \/ StartSettles
    \/ OnScanSuccess
    \/ CloseModal
    \/ ResumeTimer
    \/ Tick

SpecScanPage == InitScannerPage /\ [][NextScanPage]_vars

\* C30: the camera is started at most once per scanning session: for any
\* interleaving of Scanner.start, stop and destroy calls, a second start
\* issued while the first awaits the camera included, the underlying start is
\* never invoked while the camera is running or starting, and isScanning is
\* true only while a camera has been started successfully and not stopped.
C30_CameraStartedOnce ==
    /\ ~camera.startedBusy
    /\ scanner.isScanning =>
          \E object \in DOMAIN camera.objects :
             camera.objects[object] \in {"SCANNING", "PAUSED", "STOPPING"}

\* The scanner page with what the result modal and its timer are due: the
\* participant closes a result modal that is open, and a timer set fires
SpecScanPageFair ==
    /\ SpecScanPage
    /\ WF_vars(CloseModal)
    /\ WF_vars(ResumeTimer)

\* The Html5Qrcode object Scanner holds is paused
ScannerPaused ==
    IF scanner.html5QrCode = 0 THEN FALSE
    ELSE camera.objects[scanner.html5QrCode] = "PAUSED"

\* The Html5Qrcode object Scanner holds is scanning
ScannerRunning ==
    IF scanner.html5QrCode = 0 THEN FALSE
    ELSE camera.objects[scanner.html5QrCode] = "SCANNING"

\* C28: every scan ends with the scanner running again: whenever Scanner has
\* paused itself for a decoded code and passed it to App.handleScan, then on
\* every path through handleScan (not registered, invalid code, repeat of the
\* same code within 5 seconds, failed submission, win or lose) the scanner is
\* eventually resumed, directly or by closing the result modal the path opened.
C28_ScanEndsResumed == ScannerPaused ~> ScannerRunning

====
